---- MODULE Spec2Model ----
(***************************************************************************)
(* Agent-job orchestrator: the controller's job queue, job-state store,    *)
(* approval broker and event handler (orchestrator_host), and the runner's *)
(* agent session with its approval-gated permission callback (poc.agent).  *)
(*                                                                         *)
(* Granularity: one action per handler.  A handler that blocks (a worker   *)
(* thread, the permission callback) is cut at its blocking points: lock    *)
(* acquisition, runner I/O, the await of the approval event, the blocking  *)
(* event POST.  The code between two blocking points is one step.          *)
(***************************************************************************)
EXTENDS Integers, Sequences, FiniteSets, TLC

\* ---------------------------------------------------------------- bounds
MaxJobs == 3
NumSteps == 1
MaxCalls == 2
MaxIter == 1
MaxSched == 3
MaxQueued == 2
MaxThreads == 3
MaxRegs == 1
MaxBrokerJobs == 2
MaxRunnerJobs == 2
MaxSessions == 3
MaxPosts == 4
MaxClock == 3
MaxReplies == 2
MaxLoads == 2

Jobs == 1..MaxJobs
None == 0

\* ------------------------------------------------------- job-state store
VALID_PHASES == {"QUEUED", "RUNNING", "BLOCKED", "DONE", "FAILED", "CANCELLED"}
AllPhases == VALID_PHASES \cup {"WAITING_APPROVAL", "WAITING_INPUT"}
TerminalPhases == {"DONE", "FAILED", "CANCELLED"}

ErrNone == "none"
ErrRestart == "Orchestrator restarted while job was running"
ErrInternal == "Internal pipeline error"
ErrStep == "Step failed with exit code"

NoJob == [phase |-> "ABSENT", steps |-> <<>>, error |-> ErrNone]

PendingSteps == [i \in 1..NumSteps |-> "pending"]

\* create_job: a new record, phase QUEUED, every step pending
NewJob == [phase |-> "QUEUED", steps |-> PendingSteps, error |-> ErrNone]

\* JobState.set_phase: rejects a phase outside VALID_PHASES (ValueError)
SetPhaseOk(p) == p \in VALID_PHASES

set_phase(st, p) == [st EXCEPT !.phase = p]

VARIABLES
    store,            \* job id -> persisted record (state.json), NoJob when absent
    next_job,         \* next job id create_job hands out (ids sort by creation)
    queue,            \* JobQueue._queue
    current_job_id,   \* JobQueue._current_job_id (None = 0)
    cancel_event,     \* JobQueue._cancel_event
    pc,               \* job id -> position of its worker thread
    wstate,           \* job id -> the worker's in-memory JobState
    widx,             \* job id -> index of the step the worker is at
    fired,            \* job id -> lifecycle callbacks invoked, in order
    reg_jobs,         \* SlackProgressReporter._jobs (job ids registered)
    pending,          \* ApprovalManager._pending: job id -> tool_use_id or None
    recovered,        \* what recover_stale_jobs returned at the last start
    runner_seen,      \* the jobs the runner has been asked to execute
    end_posts         \* job id -> number of POST /jobs/{id}/end requests made

qvars == <<store, next_job, end_posts, queue, current_job_id, cancel_event, pc, wstate,
           widx, fired, reg_jobs, pending, recovered, runner_seen>>

VARIABLES
    status,            \* AgentSession.status
    iteration,         \* AgentSession.iteration
    approved_tools,    \* AgentSession.approved_tools
    pending_approval,  \* AgentSession.pending_approval (NoPending = None)
    approval_granted,  \* AgentSession._approval_granted
    cancel_requested,  \* AgentSession._cancel_requested
    end_requested,     \* AgentSession._end_requested
    approval_event,    \* AgentSession._approval_event is set
    message_event,     \* AgentSession._message_event is set
    queued_messages,   \* AgentSession._queued_messages, oldest first
    loop_ready,        \* _loop and the two events exist (the thread has booted)
    scheduled,         \* the loop's ready queue of call_soon_threadsafe callbacks
    cpc,               \* position of the permission callback _can_use_tool
    call,              \* the tool call the callback is deciding, or NoCall
    result,            \* what the callback returned last
    to_run,            \* the allowed call whose tool the SDK is executing
    ncalls,            \* number of permission callbacks made so far
    emitted,           \* events given to CallbackClient.post_event, in order
    approve_accepted,  \* history: the last decision accepted for the call is approve
    auto_approved,     \* history: tools of accepted approve(auto_approve_tool=True)
    mpc,               \* position of the main loop _run_agent
    submitted,         \* messages given to client.query, in order (0 is the goal)
    nmsgs,             \* history: number of add_message calls so far
    interrupted,       \* client.interrupt() was called
    result_text        \* AgentSession.result_text

svars == <<status, iteration, approved_tools, pending_approval, approval_granted,
           cancel_requested, end_requested, approval_event, message_event,
           queued_messages, loop_ready, scheduled, cpc, call, result, to_run,
           ncalls, emitted, approve_accepted, auto_approved, mpc, submitted,
           nmsgs, interrupted, result_text>>

lvars == <<mpc, submitted, nmsgs, interrupted, result_text>>

VARIABLES
    thr,         \* broker thread -> its handle_approve/handle_deny call
    rpcs,        \* the send_approval RPCs made, tagged with the calling thread
    regs,        \* history: job id -> number of register_pending calls
    regtu,       \* history: job id -> tool_use_id of the last register_pending
    disturbed    \* history: job id -> a call with another tool_use_id, or a
                 \* clear_job, was made after the registration

bvars == <<thr, rpcs, regs, regtu, disturbed>>

\* the controller's variables other than ApprovalManager._pending
qrest == <<store, next_job, end_posts, queue, current_job_id, cancel_event, pc, wstate,
           widx, fired, reg_jobs, recovered, runner_seen>>

VARIABLES
    sessions,    \* RunnerHandler.sessions: job id -> session object, None if absent
    sjob,        \* session object -> its job_id, None while not constructed
    sstatus,     \* session object -> AgentSession.status
    send,        \* session object -> AgentSession._end_requested
    scancel,     \* session object -> AgentSession._cancel_requested
    resp         \* the last HTTP response of the runner handler

hvars == <<sessions, sjob, sstatus, send, scancel, resp>>

VARIABLES
    cb_resp,     \* the last HTTP status the callback server answered
    cb_calls     \* the event_handler invocations so far: body and whether it raised

cvars == <<cb_resp, cb_calls>>

VARIABLES
    given,       \* the job record handed to the store, with the data-model fields
    obj,         \* the JobState object built from it (NoObj before construction)
    disk,        \* the text of state.json (NoFile before the first save)
    loaded,      \* what load_state returned last (NoObj before the first load)
    clock,       \* the wall clock in seconds (_utcnow_iso)
    raised       \* the last set_phase call raised ValueError

tvars == <<given, obj, disk, loaded, clock, raised>>

VARIABLES
    forwarded,   \* the thread replies given to send_message, in order
    reply_rpcs,  \* the send_approval RPCs made for text replies, in order
    reply_ret    \* what handle_text_reply returned last

rvars == <<forwarded, reply_rpcs, reply_ret>>

VARIABLES
    ctl_pending, \* ApprovalManager._pending for the session's job: its tool_use_id
    consumed     \* history: the tool_use_ids a matching click has consumed

kvars == <<ctl_pending, consumed>>

VARIABLES
    state_json,  \* the content of state.json of one job
    state_tmp,   \* the content of state.json.tmp (<<>> while there is none)
    flock,       \* state.json.lock: the exclusive holder and the shared holders
    lpc,         \* thread -> position: index in its program and step within it
    lmem,        \* thread -> its in-memory JobState
    ldirty,      \* thread -> fields it changed since its last load or save
    observed,    \* history: every file content a load_state has read
    written      \* history: every record a save_state has written

fvars == <<state_json, state_tmp, flock, lpc, lmem, ldirty, observed, written>>

VARIABLES
    events_jsonl,  \* the job's events.jsonl: the events appended, in order
    posts,         \* the events whose POST to the callback URL was attempted
    last_outcome   \* how the last POST ended ("none" before the first)

uvars == <<events_jsonl, posts, last_outcome>>

VARIABLES
    cancel_for,  \* history: the jobs whose cancel() raised the signal now set
    signalled    \* history: every job whose cancel() has set _cancel_event

zvars == <<cancel_for, signalled>>

xvars == <<fvars, uvars, zvars>>

ovars == <<hvars, cvars, tvars, rvars, kvars, xvars>>

vars == <<qvars, svars, bvars, ovars>>

\* ------------------------------------------------------------ job queue
Remove_Keep(q, j) == q

\* deque.remove(job_id), line 84
Remove(q, j) == SelectSeq(q, LAMBDA x : x # j)

InQueue(q, j) == \E i \in 1..Len(q) : q[i] = j

start_next_KeepsSignal(q, ce) ==
    IF q = <<>>
    THEN [queue |-> q, current |-> None, cancel_event |-> ce, started |-> None]
    ELSE [queue |-> Tail(q), current |-> Head(q), cancel_event |-> ce,
          started |-> Head(q)]

start_next_Lifo(q, ce) ==
    IF q = <<>>
    THEN [queue |-> q, current |-> None, cancel_event |-> ce, started |-> None]
    ELSE [queue |-> SubSeq(q, 1, Len(q) - 1), current |-> q[Len(q)],
          cancel_event |-> FALSE, started |-> q[Len(q)]]

\* JobQueue._start_next (lock held): pop the head, make it current, clear the
\* cancel event and start its worker thread; an empty queue clears current.
start_next(q, ce) ==
    IF q = <<>>
    THEN [queue |-> q, current |-> None, cancel_event |-> ce, started |-> None]
    ELSE [queue |-> Tail(q), current |-> Head(q), cancel_event |-> FALSE,
          started |-> Head(q)]

ThreadStart_NoThread(p, j) == p

\* _start_next lines 105-110: the worker thread of the job made current
ThreadStart(p, j) == IF j = None THEN p ELSE [p EXCEPT ![j] = "start"]

\* JobQueue.enqueue, lines 72-77: append, position = len - 1, start the head
\* when nothing is current; the position is what the call returns
enqueue(q, cur, ce, j) ==
    LET q1 == Append(q, j)
        r == IF cur = None
             THEN start_next(q1, ce)
             ELSE [queue |-> q1, current |-> cur, cancel_event |-> ce,
                   started |-> None]
    IN [queue |-> r.queue, current |-> r.current, cancel_event |-> r.cancel_event,
        started |-> r.started, position |-> Len(q1) - 1]

\* slack_bot "!poc run": create_job, register with the progress reporter,
\* JobQueue.enqueue (append; start the head when nothing is current).
Run(j) ==
    /\ j = next_job
    /\ j <= MaxJobs
    /\ next_job' = next_job + 1
    /\ store' = [store EXCEPT ![j] = NewJob]
    /\ reg_jobs' = reg_jobs \cup {j}
    /\ LET r == enqueue(queue, current_job_id, cancel_event, j)
       IN /\ queue' = r.queue
          /\ current_job_id' = r.current
          /\ cancel_event' = r.cancel_event
          /\ pc' = ThreadStart(pc, r.started)
    /\ UNCHANGED <<end_posts, wstate, widx, fired, pending, recovered, runner_seen>>

SkipSteps(steps, from) ==
    [i \in 1..Len(steps) |-> IF steps[i] \in from THEN "skipped" ELSE steps[i]]

\* JobQueue.cancel: a queued job is removed and persisted CANCELLED; for the
\* current job only the cancel event is set; anything else returns False.
cancel_returns(q, cur, j) == InQueue(q, j) \/ cur = j

\* JobQueue.cancel, lines 81-94, as a function of the state it reads: what it
\* leaves behind and what it returns
cancel(q, cur, ce, sto, frd, j) ==
    IF InQueue(q, j)
    THEN [queue |-> Remove(q, j),
          store |-> [sto EXCEPT ![j] = set_phase(sto[j], "CANCELLED")],
          fired |-> [frd EXCEPT ![j] = Append(@, "on_job_cancelled")],
          cancel_event |-> ce, ret |-> TRUE]
    ELSE IF cur = j
    THEN [queue |-> q, store |-> sto, fired |-> frd, cancel_event |-> TRUE,
          ret |-> TRUE]
    ELSE [queue |-> q, store |-> sto, fired |-> frd, cancel_event |-> ce,
          ret |-> FALSE]

Cancel(j) ==
    /\ store[j] # NoJob
    /\ cancel_returns(queue, current_job_id, j)
    /\ LET r == cancel(queue, current_job_id, cancel_event, store, fired, j)
       IN /\ queue' = r.queue
          /\ store' = r.store
          /\ fired' = r.fired
          /\ cancel_event' = r.cancel_event
    /\ UNCHANGED <<next_job, end_posts, current_job_id, pc, wstate, widx, reg_jobs, pending, recovered, runner_seen>>

\* ------------------------------------------- worker: JobQueue._run_pipeline
\* Which lifecycle callback of the step raises: 0 none, 1 the first, 2 the second.
Raises == {0, 1, 2}

\* run_in_runner's outcome: exit code 0, exit code # 0, was_cancelled, or an
\* exception out of the call.
RunnerResults == {"ok", "fail", "cancelled", "raise"}

Save(j, st) == store' = [store EXCEPT ![j] = st]

Fire(j, names) == fired' = [fired EXCEPT ![j] = @ \o names]

Goto(j, where) == pc' = [pc EXCEPT ![j] = where]

RunStart_NoPhase(j) ==
    /\ pc[j] = "start"
    /\ wstate' = [wstate EXCEPT ![j] = store[j]]
    /\ widx' = [widx EXCEPT ![j] = 1]
    /\ Goto(j, "loop")
    /\ UNCHANGED <<store, next_job, end_posts, queue, current_job_id, cancel_event, fired,
                   reg_jobs, pending, recovered, runner_seen>>

\* lines 115-117: load, set_phase("RUNNING"), save
RunStart(j) ==
    /\ pc[j] = "start"
    /\ LET st == set_phase(store[j], "RUNNING")
       IN /\ Save(j, st)
          /\ wstate' = [wstate EXCEPT ![j] = st]
    /\ widx' = [widx EXCEPT ![j] = 1]
    /\ Goto(j, "loop")
    /\ UNCHANGED <<next_job, end_posts, queue, current_job_id, cancel_event, fired,
                   reg_jobs, pending, recovered, runner_seen>>

\* lines 121-128 and 146-153: the cancelled exit reloads the record
CancelledState(st, from) ==
    [set_phase(st, "CANCELLED") EXCEPT !.steps = SkipSteps(st.steps, from)]

\* lines 119-139 and 169-172: the head of the step loop, up to the blocking
\* run_in_runner call, or the exit of the loop when the steps are exhausted
RunLoop(j, r) ==
    /\ pc[j] = "loop"
    /\ r \in {0, 1}
    /\ IF widx[j] > Len(wstate[j].steps)
       THEN LET st == set_phase(wstate[j], "DONE")
            IN /\ Save(j, st)
               /\ wstate' = [wstate EXCEPT ![j] = st]
               /\ Fire(j, <<"on_job_done">>)
               /\ Goto(j, IF r = 1 THEN "except" ELSE "finally")
               /\ UNCHANGED widx
       ELSE IF cancel_event
       THEN LET st == CancelledState(store[j], {"pending"})
            IN /\ Save(j, st)
               /\ wstate' = [wstate EXCEPT ![j] = st]
               /\ Fire(j, <<"on_job_cancelled">>)
               /\ Goto(j, IF r = 1 THEN "except" ELSE "finally")
               /\ UNCHANGED widx
       ELSE IF wstate[j].steps[widx[j]] \in {"done", "skipped"}
       THEN /\ r = 0
            /\ widx' = [widx EXCEPT ![j] = @ + 1]
            /\ UNCHANGED <<store, wstate, fired, pc>>
       ELSE LET st == [wstate[j] EXCEPT !.steps[widx[j]] = "running"]
            IN /\ Save(j, st)
               /\ wstate' = [wstate EXCEPT ![j] = st]
               /\ Fire(j, <<"on_step_start">>)
               /\ Goto(j, IF r = 1 THEN "except" ELSE "exec")
               /\ UNCHANGED widx
    /\ runner_seen' = IF pc'[j] = "exec" THEN runner_seen \cup {j} ELSE runner_seen
    /\ UNCHANGED <<next_job, end_posts, queue, current_job_id, cancel_event, reg_jobs,
                   pending, recovered>>

\* lines 142-167: run_in_runner returns; cancellation check; step result
RunExec(j, res, r) ==
    /\ pc[j] = "exec"
    /\ IF res = "raise"
       THEN /\ r = 0
            /\ Goto(j, "except")
            /\ UNCHANGED <<store, wstate, fired, widx>>
       ELSE IF cancel_event \/ res = "cancelled"
       THEN LET st == CancelledState(store[j], {"pending", "running"})
            IN /\ r \in {0, 1}
               /\ Save(j, st)
               /\ wstate' = [wstate EXCEPT ![j] = st]
               /\ Fire(j, <<"on_job_cancelled">>)
               /\ Goto(j, IF r = 1 THEN "except" ELSE "finally")
               /\ UNCHANGED widx
       ELSE IF res = "ok"
       THEN LET st == [wstate[j] EXCEPT !.steps[widx[j]] = "done"]
            IN /\ r \in {0, 1}
               /\ Save(j, st)
               /\ wstate' = [wstate EXCEPT ![j] = st]
               /\ Fire(j, <<"on_step_done">>)
               /\ Goto(j, IF r = 1 THEN "except" ELSE "loop")
               /\ widx' = [widx EXCEPT ![j] = IF r = 1 THEN @ ELSE @ + 1]
       ELSE LET st1 == [wstate[j] EXCEPT !.steps[widx[j]] = "failed"]
                st2 == [set_phase(st1, "FAILED") EXCEPT !.error = ErrStep]
            IN /\ Save(j, IF r = 1 THEN st1 ELSE st2)
               /\ wstate' = [wstate EXCEPT ![j] = IF r = 1 THEN st1 ELSE st2]
               /\ Fire(j, IF r = 1 THEN <<"on_step_done">>
                                   ELSE <<"on_step_done", "on_job_failed">>)
               /\ Goto(j, IF r = 0 THEN "finally" ELSE "except")
               /\ UNCHANGED widx
    /\ UNCHANGED <<next_job, end_posts, queue, current_job_id, cancel_event, reg_jobs,
                   pending, recovered, runner_seen>>

\* lines 174-183: the handler of any exception: reload, FAILED, save, on_job_failed
\* (an exception out of on_job_failed is logged and swallowed)
RunExcept(j) ==
    /\ pc[j] = "except"
    /\ LET st == [set_phase(store[j], "FAILED") EXCEPT !.error = ErrInternal]
       IN /\ Save(j, st)
          /\ wstate' = [wstate EXCEPT ![j] = st]
    /\ Fire(j, <<"on_job_failed">>)
    /\ Goto(j, "finally")
    /\ UNCHANGED <<next_job, end_posts, queue, current_job_id, cancel_event, widx,
                   reg_jobs, pending, recovered, runner_seen>>

\* load_state or save_state raises (a missing or unreadable state.json, a full
\* disk): at line 115 the exception reaches the handler; inside the handler
\* (lines 177-180) it is logged at line 183 and nothing is persisted or fired
StoreRaises(j) ==
    /\ pc[j] \in {"start", "except"}
    /\ Goto(j, IF pc[j] = "start" THEN "except" ELSE "finally")
    /\ UNCHANGED <<store, next_job, end_posts, queue, current_job_id, cancel_event,
                   wstate, widx, fired, reg_jobs, pending, recovered, runner_seen>>

\* lines 184-188: under the lock, release current and start the next job
RunFinally(j) ==
    /\ pc[j] = "finally"
    /\ LET r == IF current_job_id = j
                THEN start_next(queue, cancel_event)
                ELSE [queue |-> queue, current |-> current_job_id,
                      cancel_event |-> cancel_event, started |-> None]
       IN /\ queue' = r.queue
          /\ current_job_id' = r.current
          /\ cancel_event' = r.cancel_event
          /\ pc' = ThreadStart([pc EXCEPT ![j] = "exit"], r.started)
    /\ wstate' = [wstate EXCEPT ![j] = NoJob]
    /\ widx' = [widx EXCEPT ![j] = 0]
    /\ UNCHANGED <<store, next_job, end_posts, fired, reg_jobs, pending, recovered, runner_seen>>

\* ------------------------------------- event handler: handle_callback_event
NoTu == "none"
ToolUseIds == {"tu1", "tu2"}

TerminalEvents == {"completed", "failed", "session_ended"}
ApprovalEvents == {"approval_needed", "approval_timeout"}
QueueEvents == TerminalEvents \cup {"waiting_input"}
EventTypes == TerminalEvents \cup ApprovalEvents \cup {"waiting_input", "progress"}

\* ApprovalManager.register_pending: install, overwriting any prior entry
register_pending(pend, j, tu) == [pend EXCEPT ![j] = tu]

\* ApprovalManager.clear_job
clear_job(pend, j) == [pend EXCEPT ![j] = NoTu]

\* JobQueue.mark_completed: clear current iff it is this job, then start the next
mark_completed(q, cur, ce, j) ==
    IF cur = j
    THEN start_next(q, ce)
    ELSE [queue |-> q, current |-> cur, cancel_event |-> ce, started |-> None]

\* main.handle_callback_event, lines 123-130: the waiting_input branch
waiting_input_store(sto, j) ==
    IF sto[j] # NoJob /\ SetPhaseOk("WAITING_INPUT")
    THEN [sto EXCEPT ![j] = set_phase(sto[j], "WAITING_INPUT")]
    ELSE sto

\* main.handle_callback_event, lines 132-134: which events complete the job
CompletesJob(t) == t \in TerminalEvents

\* The runner posts events only for a job it has been asked to execute.
HandleCallbackEvent(t, j, tu) ==
    /\ j \in runner_seen
    /\ pending' = IF t = "approval_needed" /\ j \in reg_jobs
                  THEN register_pending(pending, j, tu)
                  ELSE IF t = "approval_timeout" THEN clear_job(pending, j)
                  ELSE pending
    /\ store' = IF t = "waiting_input" THEN waiting_input_store(store, j) ELSE store
    /\ LET r == IF CompletesJob(t)
                THEN mark_completed(queue, current_job_id, cancel_event, j)
                ELSE [queue |-> queue, current |-> current_job_id,
                      cancel_event |-> cancel_event, started |-> None]
       IN /\ queue' = r.queue
          /\ current_job_id' = r.current
          /\ cancel_event' = r.cancel_event
          /\ pc' = ThreadStart(pc, r.started)
    /\ UNCHANGED <<next_job, end_posts, wstate, widx, fired, reg_jobs, recovered, runner_seen>>

\* JobQueue.end_session on the current job: POST end to the runner, persist
\* DONE, fire on_job_done, release current and promote the head of the queue
EndSession(j) ==
    /\ current_job_id = j
    /\ end_posts' = [end_posts EXCEPT ![j] = @ + 1]
    /\ store' = [store EXCEPT ![j] = set_phase(store[j], "DONE")]
    /\ fired' = [fired EXCEPT ![j] = Append(@, "on_job_done")]
    /\ LET r == start_next(queue, cancel_event)
       IN /\ queue' = r.queue
          /\ current_job_id' = r.current
          /\ cancel_event' = r.cancel_event
          /\ pc' = ThreadStart(pc, r.started)
    /\ UNCHANGED <<next_job, wstate, widx, reg_jobs, pending, recovered, runner_seen>>

\* ------------------------------------------ restart: recover_stale_jobs
\* jobs.py line 197: which persisted phases recovery rewrites
IsStale(p) == p = "RUNNING"

recover_job(st) ==
    IF IsStale(st.phase)
    THEN [set_phase(st, "FAILED") EXCEPT
            !.error = ErrRestart,
            !.steps = [i \in 1..Len(st.steps) |->
                         IF st.steps[i] = "running" THEN "failed" ELSE st.steps[i]]]
    ELSE st

RECURSIVE SortedSeq(_)
SortedSeq(S) ==
    IF S = {} THEN <<>>
    ELSE LET m == CHOOSE x \in S : \A y \in S : x <= y
         IN <<m>> \o SortedSeq(S \ {m})

\* list_jobs(): the ids that have a state.json, sorted
list_jobs(sto) == SortedSeq({j \in Jobs : sto[j] # NoJob})

recover_stale_jobs(sto) ==
    [store |-> [j \in Jobs |-> IF sto[j] = NoJob THEN NoJob ELSE recover_job(sto[j])],
     recovered |-> SelectSeq(list_jobs(sto), LAMBDA j : IsStale(sto[j].phase))]

\* The controller process dies (threads and in-memory state are lost) and
\* main() runs again: recover_stale_jobs, then fresh queue, reporter, broker.
Restart ==
    /\ LET r == recover_stale_jobs(store)
       IN /\ store' = r.store
          /\ recovered' = r.recovered
    /\ queue' = <<>>
    /\ current_job_id' = None
    /\ cancel_event' = FALSE
    /\ pc' = [j \in Jobs |-> "none"]
    /\ wstate' = [j \in Jobs |-> NoJob]
    /\ widx' = [j \in Jobs |-> 0]
    /\ reg_jobs' = {}
    /\ pending' = [j \in Jobs |-> NoTu]
    /\ UNCHANGED <<next_job, end_posts, fired, runner_seen>>

\* ------------------------------------- runner: AgentSession (poc.agent)
APPROVAL_REQUIRED_TOOLS == {"Bash", "Write", "Edit"}

\* the tools the agent asks for
ToolNames == {"Bash", "Write", "Read"}

\* line 280: tool_use_id = f"sdk-{job_id}-{iteration}-{tool_name}"
tool_use_id(iter, tool) == <<iter, tool>>

SdkToolUseIds == {tool_use_id(i, t) : i \in 0..MaxIter, t \in ToolNames}

NoPending == [tool_use_id |-> <<0, "none">>, tool_name |-> "none"]
NoCall == [n |-> 0, tool |-> "none", tu |-> <<0, "none">>]

Allow == "Allow"
DenyTimeout == "Deny: approval timed out after N seconds"
DenyCancelled == "Deny: Agent cancelled by user"
DenyUser == "Deny: denied by the user"
Denies == {DenyTimeout, DenyCancelled, DenyUser}

\* lines 273-277: the callback asks for approval unless one of these holds
AllowedWithoutApproval(tool, approved) ==
    tool \notin APPROVAL_REQUIRED_TOOLS \/ tool \in approved

WakeResult_GrantFirst(cancelled, granted) ==
    IF granted THEN Allow
    ELSE IF cancelled THEN DenyCancelled
    ELSE DenyUser

\* lines 318-326: what a woken callback returns
WakeResult(cancelled, granted) ==
    IF cancelled THEN DenyCancelled
    ELSE IF ~granted THEN DenyUser
    ELSE Allow

ApprovedAfter_NoInsert(approved, tool, auto) == approved

\* approve(), lines 108-110: the approved_tools after an accepted approve
ApprovedAfter(approved, tool, auto) ==
    IF auto THEN approved \cup {tool} ELSE approved

\* loop.call_soon_threadsafe(ev.set) when _loop and the event exist
Schedule(sch, ready, ev) == IF ready THEN Append(sch, ev) ELSE sch

Emit(type, n) == emitted' = Append(emitted, [type |-> type, n |-> n])

\* event_bridge.map_approval_needed posted at lines 290-294, for call n
ApprovalNeeded(n, tu) == [type |-> "approval_needed", n |-> n, tu |-> tu]

\* start(): status running, the agent thread is launched
Start ==
    /\ status = "pending"
    /\ status' = "running"
    /\ UNCHANGED <<iteration, approved_tools, pending_approval, approval_granted,
                   cancel_requested, end_requested, approval_event, message_event,
                   queued_messages, loop_ready, scheduled, cpc, call, result,
                   to_run, ncalls, emitted, approve_accepted, auto_approved>>
    /\ UNCHANGED lvars

\* _run_in_thread and _run_agent lines 164-184: loop and events are created,
\* "Agent started" is posted, the client connects and the goal is submitted
AgentBoot ==
    /\ status # "pending"
    /\ mpc = "boot"
    /\ loop_ready' = TRUE
    /\ approval_event' = FALSE
    /\ message_event' = FALSE
    /\ Emit("progress", 0)
    /\ mpc' = "stream"
    /\ submitted' = <<0>>
    /\ UNCHANGED <<status, iteration, approved_tools, pending_approval,
                   approval_granted, cancel_requested, end_requested,
                   queued_messages, scheduled, cpc, call, result, to_run, ncalls,
                   approve_accepted, auto_approved, nmsgs, interrupted,
                   result_text>>

LlmEvents == {"assistant", "result", "error_result"}

StreamSteps == LlmEvents \cup {"stream_end", "raise"}

ExitReason_EndFirst(cancelled, ended) ==
    IF ended THEN "ended" ELSE IF cancelled THEN "cancelled" ELSE "none"

\* _run_agent lines 186 and 195: the cancel check comes before the end check
ExitReason(cancelled, ended) ==
    IF cancelled THEN "cancelled" ELSE IF ended THEN "ended" ELSE "none"

NextQueued_Last(q) == q[Len(q)]

\* _run_agent line 226 and _wait_for_message line 264: _queued_messages.pop(0)
NextQueued(q) == Head(q)

\* the list left by pop(0)
Rest(q) == Tail(q)

Ev(type) == [type |-> type, n |-> 0]

\* ResultMessage.result: absent or a text
ResultTexts == {"", "text"}

\* str(exc) of an exception caught at line 248
ExcText == "exception"

ErrorText_Raw(txt) == txt

\* lines 76 and 213: message.result or "Unknown error"
ErrorText(txt) == IF txt = "" THEN "Unknown error" ELSE txt

\* post_event("failed", {"error": ...}), event_bridge lines 75-78, agent line 252
Failed(txt) == [type |-> "failed", n |-> 0, error |-> txt]

\* post_event("completed", {"status": ...}), lines 188 and 233
Completed(st) == [type |-> "completed", n |-> 0, status |-> st]

\* the session leaves _run_agent: the client closes and _run_in_thread closes
\* the loop (lines 157-160), so nothing queued on it runs any more
Leave(st, evs, intr) ==
    /\ status' = st
    /\ emitted' = emitted \o evs
    /\ interrupted' = (interrupted \/ intr)
    /\ mpc' = "done"
    /\ loop_ready' = FALSE
    /\ scheduled' = <<>>

\* _run_agent lines 164-184 and 248-252: the thread boots and "Agent started"
\* is posted, but connecting the client or submitting the goal raises
BootRaise ==
    /\ status # "pending"
    /\ mpc = "boot"
    /\ approval_event' = FALSE
    /\ message_event' = FALSE
    /\ Leave("failed", <<[type |-> "progress", n |-> 0], Failed(ExcText)>>, FALSE)
    /\ result_text' = ExcText
    /\ UNCHANGED <<iteration, approved_tools, pending_approval, approval_granted,
                   cancel_requested, end_requested, queued_messages, cpc, call,
                   result, to_run, ncalls, approve_accepted, auto_approved,
                   submitted, nmsgs>>

\* _run_agent lines 185-252: one step of `async for message in
\* client.receive_messages()`: an LLM event, the end of the stream or an
\* exception raised by the SDK
LoopMessage(kind) ==
    /\ mpc = "stream"
    /\ cpc = "idle"
    /\ to_run = NoCall
    /\ kind = "assistant" => iteration < MaxIter
    /\ IF kind = "raise"
       THEN /\ Leave("failed", <<Failed(ExcText)>>, FALSE)
            /\ result_text' = ExcText
            /\ UNCHANGED <<iteration, queued_messages, submitted, message_event>>
       ELSE IF kind = "stream_end"
       THEN /\ Leave(status, <<>>, FALSE)
            /\ UNCHANGED <<iteration, queued_messages, submitted, message_event,
                           result_text>>
       ELSE IF ExitReason(cancel_requested, end_requested) = "cancelled"
       THEN /\ Leave("cancelled", <<Completed("cancelled")>>, TRUE)
            /\ UNCHANGED <<iteration, queued_messages, submitted, message_event,
                           result_text>>
       ELSE IF ExitReason(cancel_requested, end_requested) = "ended"
       THEN /\ Leave("completed", <<Ev("session_ended")>>, TRUE)
            /\ UNCHANGED <<iteration, queued_messages, submitted, message_event,
                           result_text>>
       ELSE IF kind = "assistant"
       THEN /\ iteration' = iteration + 1
            /\ UNCHANGED <<status, emitted, interrupted, mpc, loop_ready, scheduled,
                           queued_messages, submitted, message_event, result_text>>
       ELSE IF kind = "error_result"
       THEN /\ \E txt \in ResultTexts :
                  /\ Leave("failed", <<Failed(ErrorText(txt))>>, FALSE)
                  /\ result_text' = ErrorText(txt)
            /\ UNCHANGED <<iteration, queued_messages, submitted, message_event>>
       ELSE IF queued_messages # <<>>
       THEN /\ Emit("assistant_response", 0)
            /\ result_text' \in ResultTexts
            /\ submitted' = Append(submitted, NextQueued(queued_messages))
            /\ queued_messages' = Rest(queued_messages)
            /\ status' = "running"
            /\ UNCHANGED <<iteration, interrupted, mpc, loop_ready, scheduled,
                           message_event>>
       ELSE /\ status' = "waiting_input"
            /\ emitted' = emitted \o <<Ev("assistant_response"), Ev("waiting_input")>>
            /\ result_text' \in ResultTexts
            /\ message_event' = FALSE
            /\ mpc' = "waiting"
            /\ UNCHANGED <<iteration, interrupted, loop_ready, scheduled,
                           queued_messages, submitted>>
    /\ UNCHANGED <<approved_tools, pending_approval, approval_granted,
                   cancel_requested, end_requested, approval_event, cpc, call,
                   result, to_run, ncalls, approve_accepted, auto_approved, nmsgs>>

\* _wait_for_message line 256: the loop goes on waiting
KeepsWaiting(q, ended, cancelled) == q = <<>> /\ ~ended /\ ~cancelled

\* _wait_for_message lines 256-260: the one-second wait ended with nothing to
\* return; the message event is cleared and the wait starts again
WaitPoll ==
    /\ mpc = "waiting"
    /\ KeepsWaiting(queued_messages, end_requested, cancel_requested)
    /\ message_event
    /\ message_event' = FALSE
    /\ UNCHANGED <<status, iteration, approved_tools, pending_approval,
                   approval_granted, cancel_requested, end_requested,
                   approval_event, queued_messages, loop_ready, scheduled, cpc,
                   call, result, to_run, ncalls, emitted, approve_accepted,
                   auto_approved, mpc, submitted, nmsgs, interrupted,
                   result_text>>

\* _wait_for_message lines 261-264 and _run_agent lines 230-246: the wait
\* returns None (end or cancel) or the oldest queued message
WaitReturn ==
    /\ mpc = "waiting"
    /\ ~KeepsWaiting(queued_messages, end_requested, cancel_requested)
    /\ IF end_requested \/ cancel_requested
       THEN /\ IF cancel_requested
               THEN Leave("cancelled", <<Completed("cancelled")>>, FALSE)
               ELSE Leave("completed", <<Ev("session_ended")>>, FALSE)
            /\ UNCHANGED <<queued_messages, submitted>>
       ELSE /\ submitted' = Append(submitted, NextQueued(queued_messages))
            /\ queued_messages' = Rest(queued_messages)
            /\ status' = "running"
            /\ mpc' = "stream"
            /\ UNCHANGED <<emitted, interrupted, loop_ready, scheduled>>
    /\ UNCHANGED <<iteration, approved_tools, pending_approval, approval_granted,
                   cancel_requested, end_requested, approval_event, message_event,
                   cpc, call, result, to_run, ncalls, approve_accepted,
                   auto_approved, nmsgs, result_text>>

\* _can_use_tool lines 273-294: return Allow at once, or install the pending
\* approval, post approval_needed and park on the approval event
CanUseTool(tool) ==
    /\ mpc = "stream"
    /\ cpc = "idle"
    /\ scheduled = <<>>
    /\ to_run = NoCall
    /\ ncalls < MaxCalls
    /\ ncalls' = ncalls + 1
    /\ LET c == [n |-> ncalls + 1, tool |-> tool, tu |-> tool_use_id(iteration, tool)]
       IN /\ call' = c
          /\ IF AllowedWithoutApproval(tool, approved_tools)
             THEN /\ result' = Allow
                  /\ to_run' = c
                  /\ UNCHANGED <<pending_approval, status, approval_event,
                                 approval_granted, emitted, cpc, approve_accepted>>
             ELSE /\ pending_approval' = [tool_use_id |-> c.tu, tool_name |-> tool]
                  /\ status' = "waiting_approval"
                  /\ approval_event' = FALSE
                  /\ approval_granted' = FALSE
                  /\ emitted' = Append(emitted, ApprovalNeeded(c.n, c.tu))
                  /\ cpc' = "parked"
                  /\ result' = "none"
                  /\ approve_accepted' = FALSE
                  /\ UNCHANGED to_run
    /\ UNCHANGED <<iteration, approved_tools, cancel_requested, end_requested,
                   message_event, queued_messages, loop_ready, scheduled,
                   auto_approved>>
    /\ UNCHANGED lvars

\* _can_use_tool lines 280-286 on their own: the pending approval is installed
\* and visible to the HTTP handler's thread before the flags are reset
InstallPending(tool) ==
    /\ mpc = "stream"
    /\ cpc = "idle"
    /\ scheduled = <<>>
    /\ to_run = NoCall
    /\ ncalls < MaxCalls
    /\ ~AllowedWithoutApproval(tool, approved_tools)
    /\ ncalls' = ncalls + 1
    /\ call' = [n |-> ncalls + 1, tool |-> tool, tu |-> tool_use_id(iteration, tool)]
    /\ pending_approval' = [tool_use_id |-> call'.tu, tool_name |-> tool]
    /\ status' = "waiting_approval"
    /\ cpc' = "setup"
    /\ result' = "none"
    /\ approve_accepted' = FALSE
    /\ UNCHANGED <<iteration, approved_tools, approval_granted, cancel_requested,
                   end_requested, approval_event, message_event, queued_messages,
                   loop_ready, scheduled, to_run, emitted, auto_approved>>
    /\ UNCHANGED lvars

\* _can_use_tool lines 287-294: clear the event, reset the granted flag, post
\* approval_needed and park
FinishSetup ==
    /\ cpc = "setup"
    /\ approval_event' = FALSE
    /\ approval_granted' = FALSE
    /\ emitted' = Append(emitted, ApprovalNeeded(call.n, call.tu))
    /\ cpc' = "parked"
    /\ UNCHANGED <<status, iteration, approved_tools, pending_approval,
                   cancel_requested, end_requested, message_event, queued_messages,
                   loop_ready, scheduled, call, result, to_run, ncalls,
                   approve_accepted, auto_approved>>
    /\ UNCHANGED lvars

\* the event loop runs the next callback queued by call_soon_threadsafe
RunScheduled ==
    /\ scheduled # <<>>
    /\ cpc # "timeout"
    /\ scheduled' = Tail(scheduled)
    /\ IF Head(scheduled) = "approval"
       THEN approval_event' = TRUE /\ UNCHANGED message_event
       ELSE message_event' = TRUE /\ UNCHANGED approval_event
    /\ UNCHANGED <<status, iteration, approved_tools, pending_approval,
                   approval_granted, cancel_requested, end_requested,
                   queued_messages, loop_ready, cpc, call, result, to_run, ncalls,
                   emitted, approve_accepted, auto_approved>>
    /\ UNCHANGED lvars

\* _can_use_tool lines 315-326: the approval event was set while parked
Wake ==
    /\ cpc = "parked"
    /\ approval_event
    /\ pending_approval' = NoPending
    /\ status' = "running"
    /\ result' = WakeResult(cancel_requested, approval_granted)
    /\ to_run' = IF result' = Allow THEN call ELSE NoCall
    /\ cpc' = "idle"
    /\ UNCHANGED <<iteration, approved_tools, approval_granted, cancel_requested,
                   end_requested, approval_event, message_event, queued_messages,
                   loop_ready, scheduled, call, ncalls, emitted, approve_accepted,
                   auto_approved>>
    /\ UNCHANGED lvars

\* _can_use_tool lines 301-305: wait_for timed out; approval_timeout is posted
\* (a blocking POST made while pending_approval is still installed)
Timeout ==
    /\ cpc = "parked"
    /\ ~approval_event
    /\ Emit("approval_timeout", call.n)
    /\ cpc' = "timeout"
    /\ UNCHANGED <<status, iteration, approved_tools, pending_approval,
                   approval_granted, cancel_requested, end_requested,
                   approval_event, message_event, queued_messages, loop_ready,
                   scheduled, call, result, to_run, ncalls, approve_accepted,
                   auto_approved>>
    /\ UNCHANGED lvars

TimeoutReturn_KeepsPending ==
    /\ cpc = "timeout"
    /\ result' = DenyTimeout
    /\ cpc' = "idle"
    /\ UNCHANGED <<status, pending_approval, iteration, approved_tools,
                   approval_granted, cancel_requested, end_requested,
                   approval_event, message_event, queued_messages, loop_ready,
                   scheduled, call, to_run, ncalls, emitted, approve_accepted,
                   auto_approved>>
    /\ UNCHANGED lvars

\* _can_use_tool lines 306-313: the timeout path returns Deny
TimeoutReturn ==
    /\ cpc = "timeout"
    /\ pending_approval' = NoPending
    /\ status' = "running"
    /\ result' = DenyTimeout
    /\ cpc' = "idle"
    /\ UNCHANGED <<iteration, approved_tools, approval_granted, cancel_requested,
                   end_requested, approval_event, message_event, queued_messages,
                   loop_ready, scheduled, call, to_run, ncalls, emitted,
                   approve_accepted, auto_approved>>
    /\ UNCHANGED lvars

\* the SDK runs an allowed tool, then _post_tool_hook (lines 328-332)
PostToolHook ==
    /\ to_run # NoCall
    /\ cpc = "idle"
    /\ Emit("tool_result", to_run.n)
    /\ to_run' = NoCall
    /\ UNCHANGED <<status, iteration, approved_tools, pending_approval,
                   approval_granted, cancel_requested, end_requested,
                   approval_event, message_event, queued_messages, loop_ready,
                   scheduled, cpc, call, result, ncalls, approve_accepted,
                   auto_approved>>
    /\ UNCHANGED lvars

Matches_AnyPending(pend, tu) == pend # NoPending

\* approve()/deny() line 106/118: the call matches the pending approval
Matches(pend, tu) == pend # NoPending /\ pend.tool_use_id = tu

\* approve(tool_use_id, auto_approve_tool), lines 104-114
approve(pend, approved, granted, sch, ready, tu, auto) ==
    IF Matches(pend, tu)
    THEN [approved_tools |-> ApprovedAfter(approved, pend.tool_name, auto),
          approval_granted |-> TRUE,
          scheduled |-> Schedule(sch, ready, "approval"),
          ret |-> TRUE]
    ELSE [approved_tools |-> approved, approval_granted |-> granted,
          scheduled |-> sch, ret |-> FALSE]

\* handler._handle_approve lines 136-139: the HTTP status answered
handle_approve_status(ok) == IF ok THEN 200 ELSE 400

Approve(tu, auto) ==
    /\ Len(scheduled) < MaxSched
    /\ LET r == approve(pending_approval, approved_tools, approval_granted,
                        scheduled, loop_ready, tu, auto)
       IN /\ approved_tools' = r.approved_tools
          /\ approval_granted' = r.approval_granted
          /\ scheduled' = r.scheduled
          /\ approve_accepted' = IF r.ret THEN TRUE ELSE approve_accepted
          /\ auto_approved' = IF r.ret /\ auto
                              THEN auto_approved \cup {pending_approval.tool_name}
                              ELSE auto_approved
    /\ UNCHANGED <<status, iteration, pending_approval, cancel_requested,
                   end_requested, approval_event, message_event, queued_messages,
                   loop_ready, cpc, call, result, to_run, ncalls, emitted>>
    /\ UNCHANGED lvars

\* deny(tool_use_id), lines 116-123
deny(pend, granted, sch, ready, tu) ==
    IF Matches(pend, tu)
    THEN [approval_granted |-> FALSE,
          scheduled |-> Schedule(sch, ready, "approval"), ret |-> TRUE]
    ELSE [approval_granted |-> granted, scheduled |-> sch, ret |-> FALSE]

Deny(tu) ==
    /\ Len(scheduled) < MaxSched
    /\ LET r == deny(pending_approval, approval_granted, scheduled, loop_ready, tu)
       IN /\ approval_granted' = r.approval_granted
          /\ scheduled' = r.scheduled
          /\ approve_accepted' = IF r.ret THEN FALSE ELSE approve_accepted
    /\ UNCHANGED <<status, iteration, approved_tools, pending_approval,
                   cancel_requested, end_requested, approval_event, message_event,
                   queued_messages, loop_ready, cpc, call, result, to_run, ncalls,
                   emitted, auto_approved>>
    /\ UNCHANGED lvars

\* add_message(), lines 125-129
AddMessage ==
    /\ Len(scheduled) < MaxSched
    /\ nmsgs < MaxQueued
    /\ nmsgs' = nmsgs + 1
    /\ queued_messages' = Append(queued_messages, nmsgs + 1)
    /\ scheduled' = Schedule(scheduled, loop_ready, "message")
    /\ UNCHANGED <<status, iteration, approved_tools, pending_approval,
                   approval_granted, cancel_requested, end_requested,
                   approval_event, message_event, loop_ready, cpc, call, result,
                   to_run, ncalls, emitted, approve_accepted, auto_approved,
                   mpc, submitted, interrupted, result_text>>

\* end(), lines 131-137
End ==
    /\ Len(scheduled) + 2 <= MaxSched
    /\ end_requested' = TRUE
    /\ scheduled' = Schedule(Schedule(scheduled, loop_ready, "message"),
                             loop_ready, "approval")
    /\ UNCHANGED <<status, iteration, approved_tools, pending_approval,
                   approval_granted, cancel_requested, approval_event,
                   message_event, queued_messages, loop_ready, cpc, call, result,
                   to_run, ncalls, emitted, approve_accepted, auto_approved>>
    /\ UNCHANGED lvars

\* cancel(), lines 139-147
SessionCancel ==
    /\ Len(scheduled) + 2 <= MaxSched
    /\ cancel_requested' = TRUE
    /\ IF pending_approval # NoPending
       THEN /\ approval_granted' = FALSE
            /\ scheduled' = Schedule(Schedule(scheduled, loop_ready, "approval"),
                                     loop_ready, "message")
       ELSE /\ UNCHANGED approval_granted
            /\ scheduled' = Schedule(scheduled, loop_ready, "message")
    /\ UNCHANGED <<status, iteration, approved_tools, pending_approval,
                   end_requested, approval_event, message_event, queued_messages,
                   loop_ready, cpc, call, result, to_run, ncalls, emitted,
                   approve_accepted, auto_approved>>
    /\ UNCHANGED lvars

SInit ==
    /\ status = "pending"
    /\ iteration = 0
    /\ approved_tools = {}
    /\ pending_approval = NoPending
    /\ approval_granted = FALSE
    /\ cancel_requested = FALSE
    /\ end_requested = FALSE
    /\ approval_event = FALSE
    /\ message_event = FALSE
    /\ queued_messages = <<>>
    /\ loop_ready = FALSE
    /\ scheduled = <<>>
    /\ cpc = "idle"
    /\ call = NoCall
    /\ result = "none"
    /\ to_run = NoCall
    /\ ncalls = 0
    /\ emitted = <<>>
    /\ approve_accepted = FALSE
    /\ auto_approved = {}
    /\ mpc = "boot"
    /\ submitted = <<>>
    /\ nmsgs = 0
    /\ interrupted = FALSE
    /\ result_text = ""

\* The session with the approval controls of the HTTP handler.
SNext ==
    \/ Start
    \/ AgentBoot
    \/ BootRaise
    \/ \E kind \in StreamSteps : LoopMessage(kind)
    \/ WaitReturn
    \/ \E tool \in ToolNames : CanUseTool(tool)
    \/ RunScheduled
    \/ Wake
    \/ Timeout
    \/ TimeoutReturn
    \/ PostToolHook
    \/ \E tu \in SdkToolUseIds, auto \in BOOLEAN : Approve(tu, auto)
    \/ \E tu \in SdkToolUseIds : Deny(tu)
    \/ End
    \/ SessionCancel

\* The session with follow-up messages, end and cancel.
LNext ==
    \/ Start
    \/ AgentBoot
    \/ BootRaise
    \/ \E kind \in StreamSteps : LoopMessage(kind)
    \/ WaitPoll
    \/ WaitReturn
    \/ \E tool \in ToolNames : CanUseTool(tool)
    \/ RunScheduled
    \/ Wake
    \/ Timeout
    \/ TimeoutReturn
    \/ PostToolHook
    \/ AddMessage
    \/ End
    \/ SessionCancel

\* ------------------------------- controller: ApprovalManager threads
Threads == 1..MaxThreads
BrokerJobs == 1..MaxBrokerJobs
Decisions == {"approve", "approve_all", "deny"}

IdleCall == [pc |-> "idle", job |-> None, tu |-> NoTu, kind |-> "none",
             epoch |-> 0, ret |-> "none"]

pop_pending_Keep(pend, j) == pend

\* approvals.py lines 49 and 59: pending = self._pending.pop(job_id, None)
pop_pending(pend, j) == [pend EXCEPT ![j] = NoTu]

\* approvals.py lines 50 and 60: the popped entry is the one asked for
Found(popped, tu) == popped # NoTu /\ popped = tu

\* main.handle_callback_event lines 108-117 reaching register_pending
BrokerRegister(j, tu) ==
    /\ regs[j] < MaxRegs
    /\ pending' = register_pending(pending, j, tu)
    /\ regs' = [regs EXCEPT ![j] = @ + 1]
    /\ regtu' = [regtu EXCEPT ![j] = tu]
    /\ disturbed' = [disturbed EXCEPT ![j] = FALSE]
    /\ UNCHANGED <<thr, rpcs>>

\* handle_approve lines 49-51 / handle_deny lines 59-61: pop, then the check
BrokerCall(th, j, tu, kind) ==
    /\ thr[th].pc = "idle"
    /\ pending' = pop_pending(pending, j)
    /\ thr' = [thr EXCEPT ![th] =
                 [pc |-> IF Found(pending[j], tu) THEN "send" ELSE "done",
                  job |-> j, tu |-> tu, kind |-> kind, epoch |-> regs[j],
                  ret |-> IF Found(pending[j], tu) THEN "none" ELSE "false"]]
    /\ disturbed' = [disturbed EXCEPT ![j] = @ \/ (regs[j] > 0 /\ tu # regtu[j])]
    /\ UNCHANGED <<rpcs, regs, regtu>>

\* handle_approve lines 53-55 / handle_deny lines 63-65: send_approval, the
\* Slack update, return True
BrokerSend(th) ==
    /\ thr[th].pc = "send"
    /\ rpcs' = rpcs \cup {[th |-> th, job |-> thr[th].job, tu |-> thr[th].tu,
                           approved |-> thr[th].kind # "deny",
                           auto_approve_tool |-> thr[th].kind = "approve_all"]}
    /\ thr' = [thr EXCEPT ![th].pc = "done", ![th].ret = "true"]
    /\ UNCHANGED <<pending, regs, regtu, disturbed>>

\* main.handle_callback_event lines 120-121: approval_timeout clears the job
BrokerClear(j) ==
    /\ pending' = clear_job(pending, j)
    /\ disturbed' = [disturbed EXCEPT ![j] = @ \/ regs[j] > 0]
    /\ UNCHANGED <<thr, rpcs, regs, regtu>>

BInit ==
    /\ thr = [th \in Threads |-> IdleCall]
    /\ rpcs = {}
    /\ regs = [j \in Jobs |-> 0]
    /\ regtu = [j \in Jobs |-> NoTu]
    /\ disturbed = [j \in Jobs |-> FALSE]

BNext ==
    \/ \E j \in BrokerJobs, tu \in ToolUseIds : BrokerRegister(j, tu)
    \/ \E th \in Threads, j \in BrokerJobs, tu \in ToolUseIds, kind \in Decisions :
          BrokerCall(th, j, tu, kind)
    \/ \E th \in Threads : BrokerSend(th)
    \/ \E j \in BrokerJobs : BrokerClear(j)

\* ------------------------------------------ runner: RunnerHandler (poc.handler)
RunnerJobs == 1..MaxRunnerJobs
SessIds == 1..MaxSessions

LiveStatuses == {"pending", "running", "waiting_approval", "waiting_input"}
TerminalStatuses == {"completed", "failed", "cancelled"}

NoResp == [code |-> 0, status |-> "none"]

\* handler.py lines 27-32 and do_POST lines 61-83: the POST routes
PostRoutes == {"start", "approve", "message", "cancel"}

\* _handle_start line 94: the statuses for which a second start is refused
RejectsStart(st) == st \in {"running", "waiting_approval"}

\* _handle_start, lines 91-119 (AgentSession.start sets status running)
HandleStart(j, goal) ==
    IF sessions[j] # None /\ RejectsStart(sstatus[sessions[j]])
    THEN /\ resp' = [code |-> 409, status |-> "error"]
         /\ UNCHANGED <<sessions, sjob, sstatus, send, scancel>>
    ELSE IF goal = ""
    THEN /\ resp' = [code |-> 400, status |-> "error"]
         /\ UNCHANGED <<sessions, sjob, sstatus, send, scancel>>
    ELSE \E s \in SessIds :
         /\ sjob[s] = None
         /\ \A t \in SessIds : t < s => sjob[t] # None
         /\ sjob' = [sjob EXCEPT ![s] = j]
         /\ sstatus' = [sstatus EXCEPT ![s] = "running"]
         /\ sessions' = [sessions EXCEPT ![j] = s]
         /\ resp' = [code |-> 200, status |-> "started"]
         /\ UNCHANGED <<send, scancel>>

\* _handle_cancel, lines 155-162, with AgentSession.cancel line 141
HandleCancel(j) ==
    /\ IF sessions[j] = None
       THEN resp' = [code |-> 404, status |-> "error"] /\ UNCHANGED scancel
       ELSE /\ scancel' = [scancel EXCEPT ![sessions[j]] = TRUE]
            /\ resp' = [code |-> 200, status |-> "cancel_requested"]
    /\ UNCHANGED <<sessions, sjob, sstatus, send>>

\* do_POST, lines 57-85, for a path /jobs/{job_id}/{route} whose route has no
\* pattern: no handler runs and the answer is 404 Not found
HandleUnrouted(j, route) ==
    /\ route \notin PostRoutes
    /\ resp' = [code |-> 404, status |-> "error"]
    /\ UNCHANGED <<sessions, sjob, sstatus, send, scancel>>

\* the status changes an AgentSession thread makes (agent.py): park and return
\* of the permission callback (lines 284, 306, 317), a result with nothing
\* queued (228), a follow-up (245), failure (212, 250), cancel (187, 232), end
\* (197, 237)
StatusSteps(st, cancelled, ended) ==
    CASE st = "running" ->
            {"waiting_approval", "waiting_input", "failed"}
                \cup (IF cancelled THEN {"cancelled"} ELSE {})
                \cup (IF ended /\ ~cancelled THEN {"completed"} ELSE {})
      [] st = "waiting_approval" -> {"running"}
      [] st = "waiting_input" ->
            IF cancelled THEN {"cancelled"}
            ELSE IF ended THEN {"completed"} ELSE {"running"}
      [] OTHER -> {}

SessionStep(s) ==
    /\ sjob[s] # None
    /\ \E st \in StatusSteps(sstatus[s], scancel[s], send[s]) :
          sstatus' = [sstatus EXCEPT ![s] = st]
    /\ UNCHANGED <<sessions, sjob, send, scancel, resp>>

HInit ==
    /\ sessions = [j \in RunnerJobs |-> None]
    /\ sjob = [s \in SessIds |-> None]
    /\ sstatus = [s \in SessIds |-> "pending"]
    /\ send = [s \in SessIds |-> FALSE]
    /\ scancel = [s \in SessIds |-> FALSE]
    /\ resp = NoResp


\* do_POST, lines 57-85: the first matching route pattern picks the handler
do_POST(j, route) ==
    IF route = "start" THEN \E goal \in {"", "goal"} : HandleStart(j, goal)
    ELSE IF route = "cancel" THEN HandleCancel(j)
    ELSE HandleUnrouted(j, route)

HNext ==
    \/ \E j \in RunnerJobs : do_POST(j, "start")
    \/ \E j \in RunnerJobs : do_POST(j, "cancel")
    \/ \E j \in RunnerJobs : do_POST(j, "end")
    \/ \E s \in SessIds : SessionStep(s)

\* ---------------------------- controller: callback server (_CallbackHandler)
Paths == {"/events", "/wrong"}

\* request bodies: none, bytes that are not JSON, a JSON object, another JSON value
Bodies == {"empty", "invalid", "object", "array"}
JsonBodies == {"object", "array"}

callback_status_Raise500(path, body, raises) ==
    IF path # "/events" THEN 404
    ELSE IF body \notin JsonBodies THEN 400
    ELSE IF raises THEN 500 ELSE 200

\* do_POST, lines 28-50: the status answered; an exception of the handler is
\* logged (lines 45-48) and the answer is still 200
callback_status(path, body, raises) ==
    IF path # "/events" THEN 404
    ELSE IF body = "empty" THEN 400
    ELSE IF body = "invalid" THEN 400
    ELSE 200

\* do_POST, lines 30-46: the request reaches self.event_handler(body)
Dispatched(path, body) == path = "/events" /\ body \in JsonBodies

\* _CallbackHandler.do_POST, lines 28-50
CallbackPost(path, body, raises) ==
    /\ Len(cb_calls) < MaxPosts
    /\ cb_resp' = callback_status(path, body, raises)
    /\ cb_calls' = IF Dispatched(path, body)
                   THEN Append(cb_calls, [body |-> body, raised |-> raises])
                   ELSE cb_calls

CInit ==
    /\ cb_resp = 0
    /\ cb_calls = <<>>

CNext == \E path \in Paths, body \in Bodies, raises \in BOOLEAN :
            CallbackPost(path, body, raises)


\* --------------------------------- controller: state.json (state.JobState)
\* JobState.__dataclass_fields__, lines 51-62 (requested_by, channel_id,
\* thread_ts, original_message_ts and blockers behave as goal and steps do)
KnownFields == {"job_id", "goal", "phase", "created_at", "updated_at", "steps",
                "error"}

\* the fields of the Job data model that the callers and tests hand over
DataModelFields == KnownFields \cup {"model", "agent_iteration", "approved_tools",
                                     "input_tokens"}

NoObj == [f \in {} |-> 0]
NoFile == <<>>

\* dataclass defaults, lines 53-62; created_at and updated_at are filled by
\* __post_init__ (lines 64-69)
Default(f, now) ==
    CASE f = "phase" -> "QUEUED"
      [] f = "steps" -> <<>>
      [] f = "error" -> ErrNone
      [] f \in {"created_at", "updated_at"} -> now
      [] OTHER -> ""

\* JobState.from_dict, lines 76-84: the keys outside the dataclass are dropped
from_dict(d, now) ==
    [f \in KnownFields |-> IF f \in DOMAIN d THEN d[f] ELSE Default(f, now)]

\* JobState.to_dict, lines 71-74
to_dict(o) == o

FieldOrder == <<"job_id", "goal", "phase", "created_at", "updated_at", "steps",
                "error", "model", "agent_iteration", "approved_tools",
                "input_tokens">>

\* json.dumps of a dict: the members in order, as key/value pairs
json_dumps(d) ==
    LET keys == SelectSeq(FieldOrder, LAMBDA k : k \in DOMAIN d)
    IN [i \in 1..Len(keys) |-> <<keys[i], d[keys[i]]>>]

\* json.loads of an object: the dict of its members (the last of equal keys)
json_loads(t) ==
    [k \in {t[i][1] : i \in 1..Len(t)} |->
        t[CHOOSE i \in 1..Len(t) :
              t[i][1] = k /\ \A m \in (i + 1)..Len(t) : t[m][1] # k][2]]

\* JobState.touch, lines 86-88
touch(o, now) == [o EXCEPT !["updated_at"] = now]

\* save_state, lines 128-140: the object is touched, then written
save_state(o, now) ==
    [obj |-> touch(o, now), disk |-> json_dumps(to_dict(touch(o, now)))]

\* load_state, lines 143-153
load_state(t, now) == from_dict(json_loads(t), now)

\* JobState.set_phase, lines 90-94, on the object
obj_set_phase(o, p, now) ==
    IF SetPhaseOk(p)
    THEN [obj |-> touch([o EXCEPT !["phase"] = p], now), raised |-> FALSE]
    ELSE [obj |-> o, raised |-> TRUE]

PhaseArgs == AllPhases \cup {"BOGUS"}

InputRecords ==
    {[f \in DataModelFields |->
        CASE f = "job_id" -> "job-1"
          [] f = "goal" -> "goal"
          [] f = "phase" -> ph
          [] f = "created_at" -> 0
          [] f = "updated_at" -> 0
          [] f = "steps" -> <<>>
          [] f = "error" -> er
          [] f = "model" -> mo
          [] f = "agent_iteration" -> it
          [] f = "approved_tools" -> ap
          [] f = "input_tokens" -> tk] :
       ph \in {"QUEUED", "RUNNING"}, er \in {ErrNone, ErrInternal},
       mo \in {"", "model-a"}, it \in {0, 5}, ap \in {<<"Bash">>},
       tk \in {1000}}

Construct ==
    /\ obj = NoObj
    /\ given' \in InputRecords
    /\ obj' = from_dict(given', clock)
    /\ UNCHANGED <<disk, loaded, clock, raised>>

SetPhase(p) ==
    /\ obj # NoObj
    /\ obj' = obj_set_phase(obj, p, clock).obj
    /\ raised' = obj_set_phase(obj, p, clock).raised
    /\ UNCHANGED <<given, disk, loaded, clock>>

SaveState ==
    /\ obj # NoObj
    /\ obj' = save_state(obj, clock).obj
    /\ disk' = save_state(obj, clock).disk
    /\ UNCHANGED <<given, loaded, clock, raised>>

LoadState ==
    /\ disk # NoFile
    /\ loaded' = load_state(disk, clock)
    /\ UNCHANGED <<given, obj, disk, clock, raised>>

Tick ==
    /\ clock < MaxClock
    /\ clock' = clock + 1
    /\ UNCHANGED <<given, obj, disk, loaded, raised>>

TInit ==
    /\ given = NoObj
    /\ obj = NoObj
    /\ disk = NoFile
    /\ loaded = NoObj
    /\ clock = 1
    /\ raised = FALSE

TNext ==
    \/ Construct
    \/ \E p \in PhaseArgs : SetPhase(p)
    \/ SaveState
    \/ LoadState
    \/ Tick


\* ------------------------- controller: text replies (handle_text_reply)
\* approvals.py lines 74 and 76
ApproveWords == {"yes", "y", "approve", "ok", "go"}
DenyWords == {"no", "n", "deny", "reject", "stop"}

\* a message text: a word as typed, possibly upper-cased and padded with blanks
Words == {"yes", "stop", "maybe", "!poc status"}
Texts == {t \in [word : Words, upper : BOOLEAN, padded : BOOLEAN] :
             t.upper = t.padded}

normalized_AsTyped(t) == IF t.upper \/ t.padded THEN "" ELSE t.word

\* text.strip().lower(), approvals.py line 73 and slack_bot.py line 298
normalized(t) == t.word

\* slack_bot.py line 298: the reply is a !poc command
IsCommand(t) == normalized(t) = "!poc status"

\* handle_approve / handle_deny, approvals.py lines 49-65, run to the end by
\* one caller: [pending, rpcs, ret]
handle_decision(pend, j, tu, approved) ==
    IF Found(pend[j], tu)
    THEN [pending |-> pop_pending(pend, j),
          rpcs |-> <<[job |-> j, tu |-> tu, approved |-> approved,
                      auto_approve_tool |-> FALSE]>>,
          ret |-> TRUE]
    ELSE [pending |-> pop_pending(pend, j), rpcs |-> <<>>, ret |-> FALSE]

\* handle_text_reply, approvals.py lines 67-78
handle_text_reply(pend, j, t) ==
    IF pend[j] = NoTu THEN [pending |-> pend, rpcs |-> <<>>, ret |-> FALSE]
    ELSE IF normalized(t) \in ApproveWords THEN handle_decision(pend, j, pend[j], TRUE)
    ELSE IF normalized(t) \in DenyWords THEN handle_decision(pend, j, pend[j], FALSE)
    ELSE [pending |-> pend, rpcs |-> <<>>, ret |-> FALSE]

\* handle_other_messages, slack_bot.py lines 283-306, for a non-empty reply in
\* the thread of job j
ThreadReply(j, t) ==
    /\ Len(forwarded) + Len(reply_rpcs) < MaxReplies
    /\ IF IsCommand(t)
       THEN UNCHANGED <<pending, forwarded, reply_rpcs, reply_ret>>
       ELSE LET r == handle_text_reply(pending, j, t)
            IN /\ pending' = r.pending
               /\ reply_rpcs' = reply_rpcs \o r.rpcs
               /\ reply_ret' = r.ret
               /\ forwarded' = IF r.ret THEN forwarded
                               ELSE Append(forwarded, [job |-> j, text |-> t])

\* main.handle_callback_event lines 107-117: approval_needed for a known job
ReplyRegister(j, tu) ==
    /\ pending' = register_pending(pending, j, tu)
    /\ UNCHANGED <<forwarded, reply_rpcs, reply_ret>>

\* main.handle_callback_event lines 120-121: approval_timeout
ReplyClear(j) ==
    /\ pending' = clear_job(pending, j)
    /\ UNCHANGED <<forwarded, reply_rpcs, reply_ret>>

RInit ==
    /\ forwarded = <<>>
    /\ reply_rpcs = <<>>
    /\ reply_ret = FALSE

RNext ==
    \/ \E j \in BrokerJobs, t \in Texts : ThreadReply(j, t)
    \/ \E j \in BrokerJobs, tu \in ToolUseIds : ReplyRegister(j, tu)
    \/ \E j \in BrokerJobs : ReplyClear(j)

\* ----------------------- state store: save_state and load_state, threads
\* Controller threads working on the state file of one job: the queue worker
\* (jobs.py lines 115-138), another thread that loads, sets a phase and saves
\* (jobs.py lines 85-87, main.py lines 126-128) and a reader (slack_bot.py
\* line 213).
LockThreads == {"worker", "other", "reader"}

\* the phases the other thread asks for: cancel and the waiting_input event
OtherPhases == {"CANCELLED", "WAITING_INPUT"}

Program(t) ==
    CASE t = "worker" -> <<"load", "run", "save", "step", "save">>
      [] t = "other" -> <<"load", "phase", "save">>
      [] t = "reader" -> [i \in 1..MaxLoads |-> "load"]

InitialRec == [phase |-> "QUEUED", step |-> "pending"]
Unlocked == [ex |-> "none", sh |-> {}]

\* the operation thread t is at, "end" past the last one
Op(t) == IF lpc[t].i > Len(Program(t)) THEN "end" ELSE Program(t)[lpc[t].i]
At(t, op, m) == Op(t) = op /\ lpc[t].m = m
Goto_(t, i, m) == lpc' = [lpc EXCEPT ![t] = [i |-> i, m |-> m]]
Step_(t, m) == Goto_(t, lpc[t].i, m)
NextOp(t) == Goto_(t, lpc[t].i + 1, "start")

CanLockEx_Unchecked(lk) == TRUE

\* fcntl.flock(lf, LOCK_EX) returns: nobody holds the lock
CanLockEx(lk) == lk.ex = "none" /\ lk.sh = {}

\* fcntl.flock(lf, LOCK_SH) returns: nobody holds it exclusively
CanLockSh(lk) == lk.ex = "none"

\* save_state lines 133-134
SaveLock(t) ==
    /\ At(t, "save", "start")
    /\ CanLockEx(flock)
    /\ flock' = [flock EXCEPT !.ex = t]
    /\ Step_(t, "locked")
    /\ UNCHANGED <<state_json, state_tmp, lmem, ldirty, observed, written>>

\* save_state lines 136-137: write_text truncates the file and writes the text
SaveWriteBegin(t) ==
    /\ At(t, "save", "locked")
    /\ state_tmp' = <<[rec |-> lmem[t], whole |-> FALSE]>>
    /\ Step_(t, "partial")
    /\ UNCHANGED <<state_json, flock, lmem, ldirty, observed, written>>

SaveWriteEnd(t) ==
    /\ At(t, "save", "partial")
    /\ state_tmp # <<>>
    /\ state_tmp' = <<[rec |-> lmem[t], whole |-> state_tmp[1].rec = lmem[t]]>>
    /\ written' = written \cup {lmem[t]}
    /\ Step_(t, "written")
    /\ UNCHANGED <<state_json, flock, lmem, ldirty, observed>>

\* save_state line 138: tmp.replace(state.json)
SaveReplace(t) ==
    /\ At(t, "save", "written")
    /\ state_tmp # <<>>
    /\ state_json' = state_tmp[1]
    /\ state_tmp' = <<>>
    /\ ldirty' = [ldirty EXCEPT ![t] = {}]
    /\ Step_(t, "replaced")
    /\ UNCHANGED <<flock, lmem, observed, written>>

\* save_state lines 139-140
SaveUnlock(t) ==
    /\ At(t, "save", "replaced")
    /\ flock' = [flock EXCEPT !.ex = IF @ = t THEN "none" ELSE @]
    /\ NextOp(t)
    /\ UNCHANGED <<state_json, state_tmp, lmem, ldirty, observed, written>>

\* load_state lines 147-148
LoadLock(t) ==
    /\ At(t, "load", "start")
    /\ CanLockSh(flock)
    /\ flock' = [flock EXCEPT !.sh = @ \cup {t}]
    /\ Step_(t, "locked")
    /\ UNCHANGED <<state_json, state_tmp, lmem, ldirty, observed, written>>

\* load_state line 150: json.loads(path.read_text())
LoadRead(t) ==
    /\ At(t, "load", "locked")
    /\ lmem' = [lmem EXCEPT ![t] = state_json.rec]
    /\ ldirty' = [ldirty EXCEPT ![t] = {}]
    /\ observed' = observed \cup {state_json}
    /\ Step_(t, "read")
    /\ UNCHANGED <<state_json, state_tmp, flock, written>>

\* load_state lines 151-152
LoadUnlock(t) ==
    /\ At(t, "load", "read")
    /\ flock' = [flock EXCEPT !.sh = @ \ {t}]
    /\ NextOp(t)
    /\ UNCHANGED <<state_json, state_tmp, lmem, ldirty, observed, written>>

\* a thread changes its in-memory record: the worker sets RUNNING (jobs.py
\* line 116) and marks the step running (line 136); the other thread calls
\* set_phase, which raises for a phase outside VALID_PHASES
Mutate(t) ==
    /\ lpc[t].m = "start"
    /\ \/ /\ Op(t) = "run"
          /\ lmem' = [lmem EXCEPT ![t] = set_phase(@, "RUNNING")]
          /\ ldirty' = [ldirty EXCEPT ![t] = @ \cup {"phase"}]
          /\ NextOp(t)
       \/ /\ Op(t) = "step"
          /\ lmem' = [lmem EXCEPT ![t].step = "running"]
          /\ ldirty' = [ldirty EXCEPT ![t] = @ \cup {"step"}]
          /\ NextOp(t)
       \/ /\ Op(t) = "phase"
          /\ \E p \in OtherPhases :
                IF SetPhaseOk(p)
                THEN /\ lmem' = [lmem EXCEPT ![t] = set_phase(@, p)]
                     /\ ldirty' = [ldirty EXCEPT ![t] = @ \cup {"phase"}]
                     /\ NextOp(t)
                ELSE /\ Goto_(t, Len(Program(t)) + 1, "start")
                     /\ UNCHANGED <<lmem, ldirty>>
    /\ UNCHANGED <<state_json, state_tmp, flock, observed, written>>

FInit ==
    /\ state_json = [rec |-> InitialRec, whole |-> TRUE]
    /\ state_tmp = <<>>
    /\ flock = Unlocked
    /\ lpc = [t \in LockThreads |-> [i |-> 1, m |-> "start"]]
    /\ lmem = [t \in LockThreads |-> InitialRec]
    /\ ldirty = [t \in LockThreads |-> {}]
    /\ observed = {}
    /\ written = {}

FNext ==
    \E t \in LockThreads :
        \/ SaveLock(t)
        \/ SaveWriteBegin(t)
        \/ SaveWriteEnd(t)
        \/ SaveReplace(t)
        \/ SaveUnlock(t)
        \/ LoadLock(t)
        \/ LoadRead(t)
        \/ LoadUnlock(t)
        \/ Mutate(t)

\* ------------------------------ runner: CallbackClient.post_event
\* post_event runs on the session's own thread and blocks it: the session
\* takes its next step when the event is appended and its POST has ended.
PostOutcomes == {"ok", "rejected", "unreachable"}

Swallows_OnlyHttp(outcome) == outcome # "unreachable"

\* post_event lines 45-54: a status >= 400 is logged, an exception is caught
Swallows(outcome) == TRUE

\* post_event has returned for every event the session emitted
ClientIdle == Len(posts) = Len(emitted)

\* a step of the session's thread, taken between two post_event calls
OnSessionThread(A) == ClientIdle /\ A /\ UNCHANGED uvars

\* post_event lines 39-40 and _append_local
AppendLocal ==
    /\ Len(events_jsonl) < Len(emitted)
    /\ Len(events_jsonl) = Len(posts)
    /\ events_jsonl' = Append(events_jsonl, emitted[Len(events_jsonl) + 1])
    /\ UNCHANGED <<posts, last_outcome, svars>>

\* post_event lines 45-54: the POST and how it ended; an exception that
\* escaped would end the session in _run_agent's handler (lines 248-252)
PostSend(outcome) ==
    /\ Len(posts) < Len(events_jsonl)
    /\ posts' = Append(posts, events_jsonl[Len(posts) + 1])
    /\ last_outcome' = outcome
    /\ UNCHANGED events_jsonl
    /\ IF Swallows(outcome)
       THEN UNCHANGED svars
       ELSE /\ status' = "failed"
            /\ mpc' = "done"
            /\ UNCHANGED <<iteration, approved_tools, pending_approval,
                           approval_granted, cancel_requested, end_requested,
                           approval_event, message_event, queued_messages,
                           loop_ready, scheduled, cpc, call, result, to_run,
                           ncalls, emitted, approve_accepted, auto_approved,
                           submitted, nmsgs, interrupted, result_text>>

UInit == events_jsonl = <<>> /\ posts = <<>> /\ last_outcome = "none"

UNext ==
    \/ Start /\ UNCHANGED uvars
    \/ OnSessionThread(AgentBoot)
    \/ OnSessionThread(BootRaise)
    \/ \E kind \in StreamSteps : OnSessionThread(LoopMessage(kind))
    \/ OnSessionThread(WaitReturn)
    \/ \E tool \in ToolNames : OnSessionThread(CanUseTool(tool))
    \/ OnSessionThread(RunScheduled)
    \/ OnSessionThread(Wake)
    \/ OnSessionThread(Timeout)
    \/ OnSessionThread(TimeoutReturn)
    \/ OnSessionThread(PostToolHook)
    \/ SessionCancel /\ UNCHANGED uvars
    \/ AppendLocal
    \/ \E outcome \in PostOutcomes : PostSend(outcome)

\* --------------------- controller and runner: one job's pending approval
\* The job is registered with the progress reporter, the callback POSTs of the
\* session arrive (post_event blocks until the controller has answered), and
\* a click is handled as one step.

\* no entry in ApprovalManager._pending for the job
NoEntry == NoPending.tool_use_id

\* main.handle_callback_event lines 108-121, applied to the events of one step
RECURSIVE Deliver(_, _)
Deliver(entry, evs) ==
    IF evs = <<>> THEN entry
    ELSE LET ev == Head(evs)
         IN Deliver(IF ev.type = "approval_needed" THEN ev.tu
                    ELSE IF ev.type = "approval_timeout" THEN NoEntry
                    ELSE entry,
                    Tail(evs))

\* the events the session posted in this step (callback.post_event)
Posted == SubSeq(emitted', Len(emitted) + 1, Len(emitted'))

\* a step of the session together with the controller's handling of its events
SessionPosts(A) ==
    A /\ ctl_pending' = Deliver(ctl_pending, Posted) /\ UNCHANGED consumed

\* ApprovalManager.handle_approve / handle_deny for a click on the prompt of
\* tool_use_id tu: pop the entry, and on a match send the decision to the runner
DecisionMatches(entry, tu) == entry # NoEntry /\ entry = tu

HandleDecision(tu, approved, auto) ==
    /\ ctl_pending' = NoEntry
    /\ IF DecisionMatches(ctl_pending, tu)
       THEN /\ IF approved THEN Approve(tu, auto) ELSE Deny(tu)
            /\ consumed' = consumed \cup {tu}
       ELSE UNCHANGED <<svars, consumed>>

\* the callback server handles a POST of the event emitted[i] once more
\* (a duplicate delivery): main.handle_callback_event lines 108-121
Redeliver(i) ==
    /\ emitted[i].type \in ApprovalEvents
    /\ ctl_pending' = Deliver(ctl_pending, <<emitted[i]>>)
    /\ UNCHANGED <<svars, consumed>>

KInit == ctl_pending = NoEntry /\ consumed = {}

KNext ==
    \/ SessionPosts(Start)
    \/ SessionPosts(AgentBoot)
    \/ SessionPosts(BootRaise)
    \/ \E kind \in StreamSteps : SessionPosts(LoopMessage(kind))
    \/ SessionPosts(WaitReturn)
    \/ \E tool \in ToolNames : SessionPosts(CanUseTool(tool))
    \/ SessionPosts(RunScheduled)
    \/ SessionPosts(Wake)
    \/ SessionPosts(Timeout)
    \/ SessionPosts(TimeoutReturn)
    \/ SessionPosts(PostToolHook)
    \/ SessionPosts(End)
    \/ SessionPosts(SessionCancel)
    \/ \E tu \in SdkToolUseIds, auto \in BOOLEAN : HandleDecision(tu, TRUE, auto)
    \/ \E tu \in SdkToolUseIds : HandleDecision(tu, FALSE, FALSE)

ZInit == cancel_for = {} /\ signalled = {}

OInit == HInit /\ CInit /\ TInit /\ RInit /\ KInit /\ FInit /\ UInit /\ ZInit

\* ------------------------------------------------------- specifications
QInitRest ==
    /\ next_job = 1
    /\ end_posts = [j \in Jobs |-> 0]
    /\ queue = <<>>
    /\ current_job_id = None
    /\ cancel_event = FALSE
    /\ pc = [j \in Jobs |-> "none"]
    /\ wstate = [j \in Jobs |-> NoJob]
    /\ widx = [j \in Jobs |-> 0]
    /\ fired = [j \in Jobs |-> <<>>]
    /\ reg_jobs = {}
    /\ pending = [j \in Jobs |-> NoTu]
    /\ recovered = <<>>
    /\ runner_seen = {}

QInit == store = [j \in Jobs |-> NoJob] /\ QInitRest

\* the records a state.json can hold
StepStatuses == {"pending", "running", "done"}
JobRecords == [phase : AllPhases, steps : [1..NumSteps -> StepStatuses],
               error : {ErrNone}]

Worker(j) ==
    \/ RunStart(j)
    \/ \E r \in Raises : RunLoop(j, r)
    \/ \E res \in RunnerResults, r \in Raises : RunExec(j, res, r)
    \/ RunExcept(j)
    \/ RunFinally(j)

QNext ==
    \/ \E j \in Jobs : Run(j)
    \/ \E j \in Jobs : Cancel(j)
    \/ \E j \in Jobs : Worker(j)
    \/ \E t \in QueueEvents, j \in Jobs : HandleCallbackEvent(t, j, NoTu)
    \/ Restart

Init == QInit /\ SInit /\ BInit /\ OInit

Next == QNext /\ UNCHANGED <<svars, bvars, ovars>>

Spec == Init /\ [][Next]_vars

\* The controller without terminal runner events (mark_completed unused).
CodeNext ==
    \/ \E j \in Jobs : Run(j)
    \/ \E j \in Jobs : Cancel(j)
    \/ \E j \in Jobs : Worker(j)
    \/ \E j \in Jobs : HandleCallbackEvent("waiting_input", j, NoTu)
    \/ Restart

CodeSpec == Init /\ [][CodeNext /\ UNCHANGED <<svars, bvars, ovars>>]_vars

\* The queue of src with a state store whose reads and writes can fail.
IoNext ==
    \/ \E j \in Jobs : Run(j)
    \/ \E j \in Jobs : Cancel(j)
    \/ \E j \in Jobs : Worker(j)
    \/ \E j \in Jobs : StoreRaises(j)

IoSpec == Init /\ [][IoNext /\ UNCHANGED <<svars, bvars, ovars>>]_vars

\* cancel() lines 90-92: the call sets the signal (the job is current and not
\* in the queue)
SetsSignal(q, cur, j) == ~InQueue(q, j) /\ cur = j

\* The queue of src with the history of who the cancel signal was raised for:
\* cancel(j) that sets the event adds j; the history of the signal now set is
\* dropped when the event is cleared.
SignalNext ==
    \/ \E j \in Jobs :
          /\ Run(j)
          /\ cancel_for' = IF cancel_event' THEN cancel_for ELSE {}
          /\ UNCHANGED signalled
    \/ \E j \in Jobs :
          /\ Cancel(j)
          /\ cancel_for' = IF SetsSignal(queue, current_job_id, j)
                            THEN cancel_for \cup {j} ELSE cancel_for
          /\ signalled' = IF SetsSignal(queue, current_job_id, j)
                           THEN signalled \cup {j} ELSE signalled
    \/ \E j \in Jobs :
          /\ Worker(j)
          /\ cancel_for' = IF cancel_event' THEN cancel_for ELSE {}
          /\ UNCHANGED signalled

SignalSpec ==
    Init /\ [][SignalNext /\ UNCHANGED <<svars, bvars, hvars, cvars, tvars, rvars,
                                          kvars, fvars, uvars>>]_vars

\* The controller while it stays up.  Thread scheduling is fair: a worker that
\* is not blocked in the runner takes its next step.
LiveNext ==
    \/ \E j \in Jobs : Run(j)
    \/ \E j \in Jobs : Cancel(j)
    \/ \E j \in Jobs : Worker(j)
    \/ \E t \in QueueEvents, j \in Jobs : HandleCallbackEvent(t, j, NoTu)

LiveSpec ==
    /\ Init
    /\ [][LiveNext /\ UNCHANGED <<svars, bvars, ovars>>]_vars
    /\ \A j \in Jobs :
          /\ WF_vars(RunStart(j) /\ UNCHANGED <<svars, bvars, ovars>>)
          /\ WF_vars((\E r \in Raises : RunLoop(j, r)) /\ UNCHANGED <<svars, bvars, ovars>>)
          /\ WF_vars(RunExcept(j) /\ UNCHANGED <<svars, bvars, ovars>>)
          /\ WF_vars(RunFinally(j) /\ UNCHANGED <<svars, bvars, ovars>>)

\* The queue with graceful session ends requested by the user.
EndNext ==
    \/ \E j \in Jobs : Run(j)
    \/ \E j \in Jobs : Worker(j)
    \/ \E j \in Jobs : EndSession(j)

EndSpec == Init /\ [][EndNext /\ UNCHANGED <<svars, bvars, ovars>>]_vars

\* The runner's agent session on its own.
SessionSpec == Init /\ [][SNext /\ UNCHANGED <<qvars, bvars, ovars>>]_vars

\* The session with the controller's pending-approval table.
ControlSpec ==
    Init /\ [][KNext /\ UNCHANGED <<qvars, bvars, hvars, cvars, tvars, rvars, xvars>>]_vars

\* A session nobody cancels or ends, with event POSTs that may reach the
\* controller more than once.
RedeliverNext ==
    \/ SessionPosts(Start)
    \/ SessionPosts(AgentBoot)
    \/ \E kind \in StreamSteps : SessionPosts(LoopMessage(kind))
    \/ SessionPosts(WaitReturn)
    \/ \E tool \in ToolNames : SessionPosts(CanUseTool(tool))
    \/ SessionPosts(RunScheduled)
    \/ SessionPosts(Wake)
    \/ SessionPosts(Timeout)
    \/ SessionPosts(TimeoutReturn)
    \/ SessionPosts(PostToolHook)
    \/ \E tu \in SdkToolUseIds, auto \in BOOLEAN : HandleDecision(tu, TRUE, auto)
    \/ \E tu \in SdkToolUseIds : HandleDecision(tu, FALSE, FALSE)
    \/ \E i \in DOMAIN emitted : Redeliver(i)

RedeliverSpec ==
    Init /\ [][RedeliverNext /\ UNCHANGED <<qvars, bvars, hvars, cvars, tvars, rvars, xvars>>]_vars

\* The session nobody cancels or ends, with the set-up of the permission
\* callback cut where the HTTP handler's thread can run in between.
SetupNext ==
    \/ Start
    \/ AgentBoot
    \/ \E kind \in StreamSteps : LoopMessage(kind)
    \/ WaitReturn
    \/ \E tool \in ToolNames :
          AllowedWithoutApproval(tool, approved_tools) /\ CanUseTool(tool)
    \/ \E tool \in ToolNames : InstallPending(tool)
    \/ FinishSetup
    \/ cpc # "setup" /\ RunScheduled
    \/ Wake
    \/ Timeout
    \/ TimeoutReturn
    \/ PostToolHook
    \/ \E tu \in SdkToolUseIds, auto \in BOOLEAN : Approve(tu, auto)
    \/ \E tu \in SdkToolUseIds : Deny(tu)

SetupSpec == Init /\ [][SetupNext /\ UNCHANGED <<qvars, bvars, ovars>>]_vars

\* _run_agent line 248: the handler has run once str(exc) was stored
HandlerRan(txt) == txt = ExcText

\* _run_agent lines 183 and 248-252: the session left the `async with
\* ClaudeSDKClient` block by a return (lines 193, 201, 214, 243) or by the end
\* of the stream, and the client's close raises on the way out: the exception
\* lands in the handler around the block, which sets status failed, stores
\* the text and posts failed
CloseRaise ==
    /\ mpc = "done"
    /\ ~HandlerRan(result_text)
    /\ status' = "failed"
    /\ result_text' = ExcText
    /\ emitted' = Append(emitted, Failed(ExcText))
    /\ UNCHANGED <<iteration, approved_tools, pending_approval, approval_granted,
                   cancel_requested, end_requested, approval_event, message_event,
                   queued_messages, loop_ready, scheduled, cpc, call, result,
                   to_run, ncalls, approve_accepted, auto_approved, mpc,
                   submitted, nmsgs, interrupted>>

\* The session with its approval controls, end and cancel, where closing the
\* client may raise.
CloseNext ==
    \/ SNext
    \/ CloseRaise

CloseSpec == Init /\ [][CloseNext /\ UNCHANGED <<qvars, bvars, ovars>>]_vars

\* The runner's agent session with its message loop.
LoopSpec == Init /\ [][LNext /\ UNCHANGED <<qvars, bvars, ovars>>]_vars

\* The same session under a fair event loop: the handler starts the session,
\* the thread boots, ready callbacks and tasks run, the approval timer fires,
\* blocking POSTs return, a running tool finishes, and the LLM stream yields
\* its next step.
LiveLoopSpec ==
    /\ Init
    /\ [][LNext /\ UNCHANGED <<qvars, bvars, ovars>>]_vars
    /\ WF_vars(Start /\ UNCHANGED <<qvars, bvars, ovars>>)
    /\ WF_vars(AgentBoot /\ UNCHANGED <<qvars, bvars, ovars>>)
    /\ WF_vars((\E kind \in StreamSteps : LoopMessage(kind)) /\ UNCHANGED <<qvars, bvars, ovars>>)
    /\ WF_vars(WaitReturn /\ UNCHANGED <<qvars, bvars, ovars>>)
    /\ WF_vars(RunScheduled /\ UNCHANGED <<qvars, bvars, ovars>>)
    /\ WF_vars(Wake /\ UNCHANGED <<qvars, bvars, ovars>>)
    /\ WF_vars(Timeout /\ UNCHANGED <<qvars, bvars, ovars>>)
    /\ WF_vars(TimeoutReturn /\ UNCHANGED <<qvars, bvars, ovars>>)
    /\ WF_vars(PostToolHook /\ UNCHANGED <<qvars, bvars, ovars>>)

\* The approval broker under concurrent Slack handler threads.
BrokerSpec == Init /\ [][BNext /\ UNCHANGED <<qrest, svars, ovars>>]_vars

\* The runner's HTTP handler with its session registry.
HandlerSpec == Init /\ [][HNext /\ UNCHANGED <<qvars, svars, bvars, cvars, tvars, rvars, kvars, xvars>>]_vars

\* The controller's callback server with an event handler that may raise.
CallbackSpec == Init /\ [][CNext /\ UNCHANGED <<qvars, svars, bvars, hvars, tvars, rvars, kvars, xvars>>]_vars

\* The job-state file of one job: construction, set_phase, save and load.
StoreSpec == Init /\ [][TNext /\ UNCHANGED <<qvars, svars, bvars, hvars, cvars, rvars, kvars, xvars>>]_vars

\* Threads of the controller saving and loading the state file of one job.
LockSpec ==
    Init /\ [][FNext /\ UNCHANGED <<qvars, svars, bvars, hvars, cvars, tvars, rvars,
                                   kvars, uvars, zvars>>]_vars

\* The session with its callback client.
ClientSpec ==
    Init /\ [][UNext /\ UNCHANGED <<qvars, bvars, hvars, cvars, tvars, rvars, kvars,
                                   fvars, zvars>>]_vars

\* Thread replies of one Slack handler at a time, between the runner's
\* approval_needed and approval_timeout events.
ReplySpec ==
    Init /\ [][RNext /\ UNCHANGED <<qrest, svars, bvars, hvars, cvars, tvars, kvars, xvars>>]_vars

\* recover_stale_jobs applied to any job directory.
RecoverInit == store \in [Jobs -> JobRecords \cup {NoJob}] /\ QInitRest /\ SInit /\ BInit /\ OInit

RecoverSpec == RecoverInit /\ [][Restart /\ UNCHANGED <<svars, bvars, ovars>>]_vars

\* ------------------------------------------------------------- claims
Running == {j \in Jobs : store[j].phase = "RUNNING"}

\* C1: in every reachable state at most one job has persisted phase RUNNING.
C1_AtMostOneRunning == Cardinality(Running) <= 1

\* C5: once a job's persisted phase is DONE, FAILED or CANCELLED, no later step
\* changes its phase.
C5_TerminalPhaseIsSink ==
    [][\A j \in Jobs : store[j].phase \in TerminalPhases
                         => store'[j].phase = store[j].phase]_vars

PhaseGraph ==
    {<<"ABSENT", "QUEUED">>, <<"QUEUED", "RUNNING">>, <<"QUEUED", "CANCELLED">>,
     <<"RUNNING", "WAITING_APPROVAL">>, <<"RUNNING", "WAITING_INPUT">>,
     <<"RUNNING", "DONE">>, <<"RUNNING", "FAILED">>, <<"RUNNING", "CANCELLED">>,
     <<"WAITING_APPROVAL", "RUNNING">>, <<"WAITING_APPROVAL", "CANCELLED">>,
     <<"WAITING_INPUT", "RUNNING">>, <<"WAITING_INPUT", "CANCELLED">>}

\* C6: every change of a job's persisted phase is an edge of the phase graph.
C6_PhasePathInGraph ==
    [][\A j \in Jobs : store'[j].phase # store[j].phase
                         => <<store[j].phase, store'[j].phase>> \in PhaseGraph]_vars

CallEntered == ncalls' # ncalls
ParkedReturns == cpc # "idle" /\ cpc' = "idle"

\* C3: _can_use_tool returns Allow exactly when the tool needs no approval, or
\* is in approved_tools, or the call parked and an approve for its tool_use_id
\* was accepted with no cancel requested; in the first two cases it emits
\* nothing, does not park and leaves status and pending_approval unchanged; in
\* every other case the dangerous tool parks and gets a Deny.
C3_AllowExactly ==
    [][/\ CallEntered =>
            IF call'.tool \notin APPROVAL_REQUIRED_TOOLS
                  \/ call'.tool \in approved_tools
            THEN /\ result' = Allow
                 /\ cpc' = "idle"
                 /\ emitted' = emitted
                 /\ status' = status
                 /\ pending_approval' = pending_approval
            ELSE /\ cpc' = "parked"
                 /\ result' # Allow
       /\ ParkedReturns =>
            /\ result' \in Denies \cup {Allow}
            /\ result' = Allow <=> (approve_accepted /\ ~cancel_requested)]_vars

C3_ApprovedButDenied ==
    /\ cpc = "idle"
    /\ result = DenyTimeout
    /\ approve_accepted
    /\ ~cancel_requested

\* the calls of one thread-set that count for job j: made after its single
\* registration, with the registered tool_use_id
CallsFor(j) == {th \in Threads : thr[th].pc # "idle" /\ thr[th].job = j
                                  /\ thr[th].epoch = 1}
Winners(j) == {th \in CallsFor(j) : thr[th].pc = "send" \/ thr[th].ret = "true"}
RpcsFor(j) == {r \in rpcs : r.job = j}

\* C4: after one register_pending(job, tu), whatever the number and
\* interleaving of handle_approve / handle_deny calls with that (job, tu),
\* exactly one of them returns true and sends the one approval RPC; every other
\* call returns false and sends nothing.
C4_ExactlyOneWins ==
    \A j \in BrokerJobs :
        (regs[j] = 1 /\ ~disturbed[j]) =>
            /\ CallsFor(j) # {} => Cardinality(Winners(j)) = 1
            /\ \A th \in CallsFor(j) \ Winners(j) : thr[th].ret = "false"
            /\ \A r \in RpcsFor(j) : r.th \in Winners(j) /\ r.tu = regtu[j]
            /\ \A th \in Winners(j) :
                  thr[th].ret = "true" <=> \E r \in RpcsFor(j) : r.th = th
            /\ Cardinality(RpcsFor(j)) <= 1

C4_DuplicateClicks ==
    \E j \in BrokerJobs :
        /\ regs[j] = 1 /\ ~disturbed[j]
        /\ \A th \in Threads : thr[th].pc = "done" /\ thr[th].job = j
                                 /\ thr[th].epoch = 1
        /\ \E a, b \in Threads : /\ thr[a].kind = "approve" /\ thr[a].ret = "false"
                                 /\ thr[b].kind = "deny" /\ thr[b].ret = "true"
        /\ Cardinality(RpcsFor(j)) = 1

EmittedFor(type, n) ==
    {i \in 1..Len(emitted) : emitted[i].type = type /\ emitted[i].n = n}

\* C7: a parked callback that times out emits exactly one approval_timeout,
\* clears pending_approval, sets status running and returns the timed-out Deny;
\* no tool_result for that call follows, and the session is not terminated.
C7_TimeoutDenies ==
    /\ [][/\ (cpc = "parked" /\ cpc' = "timeout") =>
                emitted' = Append(emitted, [type |-> "approval_timeout", n |-> call.n])
          /\ (cpc = "timeout" /\ cpc' # "timeout") =>
                /\ pending_approval' = NoPending
                /\ status' = "running"
                /\ result' = DenyTimeout
                /\ cpc' = "idle"
                /\ to_run' = NoCall
                /\ emitted' = emitted]_vars
    /\ [](\A n \in 1..MaxCalls :
            EmittedFor("approval_timeout", n) # {} =>
                /\ Cardinality(EmittedFor("approval_timeout", n)) = 1
                /\ EmittedFor("tool_result", n) = {})

C7_TimedOutThenContinues ==
    /\ EmittedFor("approval_timeout", 1) # {}
    /\ ncalls = 2
    /\ status = "running"
    /\ result = Allow
    /\ EmittedFor("tool_result", 2) # {}

\* C8: if cancel() was called while the permission callback is parked, the
\* callback returns Deny whatever else (approve, deny, timeout) happened: a
\* parked callback never returns Allow once cancel has been requested.
C8_CancelAlwaysDenies ==
    [][(ParkedReturns /\ cancel_requested) => result' \in Denies]_vars

C8_ApprovedThenCancelled ==
    /\ cpc = "idle"
    /\ result = DenyCancelled
    /\ approve_accepted

\* C9: once approve(auto_approve_tool=true) was accepted for a pending call of
\* tool T, T is in approved_tools in every state from then on (so before the
\* parked callback wakes), and every later _can_use_tool call for T returns
\* Allow without emitting approval_needed and without parking.
C9_AutoApproveSticks ==
    /\ [](auto_approved \subseteq approved_tools)
    /\ [][(CallEntered /\ call'.tool \in auto_approved) =>
             /\ result' = Allow
             /\ cpc' = "idle"
             /\ emitted' = emitted
             /\ pending_approval' = pending_approval]_vars

C9_SecondCallBypasses ==
    /\ ncalls = 2
    /\ call.tool \in auto_approved
    /\ call.tool \in APPROVAL_REQUIRED_TOOLS
    /\ result = Allow
    /\ Cardinality({i \in 1..Len(emitted) : emitted[i].type = "approval_needed"}) = 1

InSeq(sq, x) == \E i \in 1..Len(sq) : sq[i] = x
StalePhases == {"RUNNING", "WAITING_APPROVAL", "WAITING_INPUT"}

\* C10: recover_stale_jobs rewrites a job to FAILED with the restart error and
\* returns its id exactly when its persisted phase is RUNNING, WAITING_APPROVAL
\* or WAITING_INPUT; every other job is left unchanged and is not returned.
C10_RecoversExactlyStale ==
    [][\A j \in Jobs :
          store[j] # NoJob =>
             IF store[j].phase \in StalePhases
             THEN /\ store'[j].phase = "FAILED"
                  /\ store'[j].error = ErrRestart
                  /\ InSeq(recovered', j)
             ELSE /\ store'[j] = store[j]
                  /\ ~InSeq(recovered', j)]_vars

Count(sq, x) == Cardinality({i \in 1..Len(sq) : sq[i] = x})

\* C11: a cancel of the current job that returns true leaves the job persisted
\* CANCELLED with on_job_cancelled fired exactly once, current_job_id released
\* and the head of the queue promoted; a worker whose job was so cancelled never
\* finishes with the job DONE or RUNNING.
C11_CancelCurrentJob ==
    /\ [][\A j \in Jobs :
            (Cancel(j) /\ current_job_id = j) =>
                /\ store'[j].phase = "CANCELLED"
                /\ Count(fired'[j], "on_job_cancelled") = 1
                /\ current_job_id' # j
                /\ queue # <<>> => /\ current_job_id' = Head(queue)
                                   /\ pc'[Head(queue)] = "start"]_vars
    /\ [](\A j \in Jobs :
            (cancel_event /\ current_job_id = j /\ pc[j] = "finally")
                => store[j].phase \notin {"DONE", "RUNNING"})

\* C12: cancel of a queued job removes it from the queue, persists CANCELLED,
\* fires on_job_cancelled once and returns true, without touching the current
\* job; the job is never started afterwards.  cancel of a job that is neither
\* queued nor current returns false and changes nothing.
C12_CancelQueuedJob ==
    /\ [](\A j \in Jobs :
            LET r == cancel(queue, current_job_id, cancel_event, store, fired, j)
            IN IF InQueue(queue, j)
               THEN /\ r.ret
                    /\ Len(r.queue) = Len(queue) - 1
                    /\ \A k \in Jobs : InQueue(r.queue, k) <=> (k # j /\ InQueue(queue, k))
                    /\ r.store[j].phase = "CANCELLED"
                    /\ \A k \in Jobs \ {j} : r.store[k] = store[k] /\ r.fired[k] = fired[k]
                    /\ r.fired[j] = <<"on_job_cancelled">>
                    /\ r.cancel_event = cancel_event
               ELSE current_job_id # j =>
                    /\ ~r.ret
                    /\ r.queue = queue /\ r.store = store /\ r.fired = fired
                    /\ r.cancel_event = cancel_event)
    /\ [][\A j \in Jobs :
            /\ (Cancel(j) /\ InQueue(queue, j)) =>
                   /\ current_job_id' = current_job_id
                   /\ pc' = pc
                   /\ cancel_event' = cancel_event
            /\ (store[j].phase = "CANCELLED" /\ pc[j] = "none") => pc'[j] = "none"]_vars
    /\ [](\A j \in Jobs :
            (store[j].phase = "CANCELLED" /\ pc[j] = "none")
                => ~InQueue(queue, j) /\ current_job_id # j)

C12_QueuedJobCancelled ==
    \E j, k \in Jobs :
        /\ j < k
        /\ store[j].phase = "CANCELLED" /\ pc[j] = "none"
        /\ fired[j] = <<"on_job_cancelled">>
        /\ pc[k] = "exec" /\ current_job_id = k

\* C13: when the request to the runner fails (error result or exception) the
\* job becomes FAILED with a diagnostic error, on_job_failed fires and
\* on_job_started does not, and the worker releases current_job_id and promotes
\* the head of the queue; when it succeeds, only on_job_started fires and the
\* phase is RUNNING.
C13_StartOutcome ==
    [][\A j \in Jobs :
          /\ ((\E r \in Raises : RunExec(j, "ok", r)) /\ ~cancel_event) =>
                /\ store'[j].phase = "RUNNING"
                /\ fired'[j] = <<"on_job_started">>
          /\ ((\E r \in Raises : RunExec(j, "fail", r) \/ RunExec(j, "raise", r))
                /\ ~cancel_event) =>
                /\ Count(fired'[j], "on_job_started") = 0
                /\ pc'[j] \in {"except", "finally"}
                /\ pc'[j] = "finally" =>
                      /\ store'[j].phase = "FAILED"
                      /\ store'[j].error # ErrNone
                      /\ Count(fired'[j], "on_job_failed") = 1
          /\ RunExcept(j) =>
                /\ store'[j].phase = "FAILED"
                /\ store'[j].error # ErrNone
                /\ Count(fired'[j], "on_job_failed") >= 1
          /\ (RunFinally(j) /\ current_job_id = j) =>
                /\ current_job_id' # j
                /\ queue # <<>> => /\ current_job_id' = Head(queue)
                                   /\ pc'[Head(queue)] = "start"]_vars

ActiveWorkers == {k \in Jobs : pc[k] \in {"start", "loop", "exec", "except", "finally"}}

C16_RejectedDecisionIsNoOp ==
    /\ [](\A tu \in SdkToolUseIds \cup {NoPending.tool_use_id}, auto \in BOOLEAN :
            LET a == approve(pending_approval, approved_tools, approval_granted,
                             scheduled, loop_ready, tu, auto)
                d == deny(pending_approval, approval_granted, scheduled,
                          loop_ready, tu)
                match == pending_approval # NoPending
                            /\ pending_approval.tool_use_id = tu
            IN /\ a.ret <=> match
               /\ d.ret <=> match
               /\ ~match =>
                    /\ a.approved_tools = approved_tools
                    /\ a.approval_granted = approval_granted
                    /\ a.scheduled = scheduled
                    /\ d.approval_granted = approval_granted
                    /\ d.scheduled = scheduled
                    /\ handle_approve_status(a.ret) = 400
                    /\ handle_approve_status(d.ret) = 400)
    /\ [][\A tu \in SdkToolUseIds :
            ((\E auto \in BOOLEAN : Approve(tu, auto)) \/ Deny(tu)) =>
                /\ pending_approval' = pending_approval
                /\ status' = status
                /\ ((pending_approval = NoPending \/ pending_approval.tool_use_id # tu)
                      => /\ approved_tools' = approved_tools
                         /\ approval_granted' = approval_granted
                         /\ scheduled' = scheduled
                         /\ approval_event' = approval_event)]_vars

C16_StaleIdWhileParked ==
    /\ cpc = "parked"
    /\ pending_approval.tool_use_id = tool_use_id(1, "Bash")
    /\ ~approve(pending_approval, approved_tools, approval_granted, scheduled,
                loop_ready, tool_use_id(0, "Bash"), TRUE).ret
    /\ approved_tools = {"Write"}

\* C17: handle_approve or handle_deny called with a tool_use_id that is not the
\* job's pending one returns false, sends no RPC and leaves the pending entry in
\* place, so that a later call with the right tool_use_id still returns true.
C17_MismatchKeepsEntry ==
    [][\A th \in Threads, j \in BrokerJobs, tu \in ToolUseIds, kind \in Decisions :
          (BrokerCall(th, j, tu, kind) /\ pending[j] # NoTu /\ pending[j] # tu) =>
              /\ thr'[th].ret = "false"
              /\ rpcs' = rpcs
              /\ pending'[j] = pending[j]]_vars

\* C18: when the next LLM event arrives after cancel() was called, the session
\* interrupts the LLM, sets status cancelled, emits completed{status=cancelled}
\* and exits without processing the event; after end() without cancel() it
\* sets status completed, emits session_ended and exits; cancel wins over end.
C18_CancelThenEndChecked ==
    [][\A kind \in LlmEvents :
         /\ (LoopMessage(kind) /\ cancel_requested) =>
               /\ interrupted'
               /\ status' = "cancelled"
               /\ emitted' = Append(emitted, Completed("cancelled"))
               /\ mpc' = "done"
               /\ iteration' = iteration
               /\ submitted' = submitted
               /\ queued_messages' = queued_messages
         /\ (LoopMessage(kind) /\ end_requested /\ ~cancel_requested) =>
               /\ interrupted'
               /\ status' = "completed"
               /\ emitted' = Append(emitted, Ev("session_ended"))
               /\ mpc' = "done"
               /\ iteration' = iteration
               /\ submitted' = submitted
               /\ queued_messages' = queued_messages]_vars

C18_CancelWonOverEnd ==
    /\ mpc = "done"
    /\ interrupted
    /\ cancel_requested
    /\ end_requested
    /\ status = "cancelled"
    /\ emitted[Len(emitted)] = Completed("cancelled")
\* the follow-up messages given to client.query, in order
FollowUps == IF submitted = <<>> THEN <<>> ELSE Tail(submitted)

\* C19: a non-error result makes the session emit assistant_response; with a
\* follow-up queued it submits the oldest one and neither emits waiting_input
\* nor enters status waiting_input, otherwise it sets status waiting_input,
\* emits waiting_input and blocks; follow-ups are submitted in the order
\* add_message received them, none skipped and none twice, and a queued
\* follow-up is eventually submitted unless the session terminates.
C19_FollowUpsInOrder ==
    /\ [][(LoopMessage("result") /\ ExitReason(cancel_requested, end_requested) = "none") =>
            IF queued_messages # <<>>
            THEN /\ emitted' = Append(emitted, Ev("assistant_response"))
                 /\ submitted' = Append(submitted, Head(queued_messages))
                 /\ queued_messages' = Tail(queued_messages)
                 /\ status' = "running"
                 /\ mpc' = "stream"
            ELSE /\ emitted' = emitted \o <<Ev("assistant_response"), Ev("waiting_input")>>
                 /\ status' = "waiting_input"
                 /\ mpc' = "waiting"
                 /\ submitted' = submitted]_vars
    /\ [](FollowUps \o queued_messages = [i \in 1..nmsgs |-> i])
    /\ \A m \in 1..MaxQueued :
          InSeq(queued_messages, m) ~> (InSeq(FollowUps, m) \/ mpc = "done")

C19_BothPathsTaken ==
    /\ FollowUps = <<1, 2>>
    /\ Count(emitted, Ev("assistant_response")) = 3
    /\ Count(emitted, Ev("waiting_input")) = 2
    /\ mpc = "waiting"
Blocked == mpc = "waiting" \/ cpc = "parked"

\* the approval event is set, or its set() is queued on the loop
WakePending == approval_event \/ InSeq(scheduled, "approval")

\* C20: a session blocked in waiting_input or parked in the permission callback
\* is always unblocked by cancel() or end() and terminates, cancelled after a
\* cancel and completed with session_ended after an end; no wake-up is lost
\* when the request races with the session entering the wait.
C20_RequestAlwaysUnblocks ==
    /\ (Blocked /\ cancel_requested) ~> (mpc = "done")
    /\ (Blocked /\ end_requested) ~> (mpc = "done")
    /\ [][/\ (WaitReturn /\ cancel_requested) =>
               (status' = "cancelled" /\ emitted' = Append(emitted, Completed("cancelled")))
          /\ (WaitReturn /\ end_requested /\ ~cancel_requested) =>
               (status' = "completed" /\ emitted' = Append(emitted, Ev("session_ended")))]_vars
    /\ []((cpc = "parked" /\ (cancel_requested \/ end_requested)) => WakePending)
LastEmitted == emitted[Len(emitted)]

\* C21: an exception caught by the session loop, and an LLM result flagged as an
\* error, end the session with status failed, result_text set to the error
\* text and a failed event carrying it; the LLM is given nothing more.
C21_FailureEndsSession ==
    /\ [][(BootRaise \/ LoopMessage("raise")
            \/ (LoopMessage("error_result")
                  /\ ExitReason(cancel_requested, end_requested) = "none")) =>
              /\ status' = "failed"
              /\ mpc' = "done"
              /\ result_text' \in {ExcText, "Unknown error", "text"}
              /\ Len(emitted') > Len(emitted)
              /\ emitted'[Len(emitted')] = Failed(result_text')
              /\ Count(emitted', Failed(result_text')) = 1
              /\ submitted' = submitted]_vars
    /\ [][mpc = "done" => (mpc' = "done" /\ submitted' = submitted /\ status' = status)]_vars

C21_FailedOnLlmError ==
    /\ mpc = "done"
    /\ status = "failed"
    /\ result_text = "Unknown error"
    /\ LastEmitted = Failed("Unknown error")
    /\ Len(submitted) = 2
LiveSessions(j) == {s \in SessIds : sjob[s] = j /\ sstatus[s] \in LiveStatuses}

\* C22: a start for a job whose session is not in a terminal status is answered
\* 409 and keeps the session; a new session replaces the registry entry only
\* when the previous one is terminal, so a job never has two live sessions.
C22_StartOnlyReplacesTerminal ==
    /\ [][\A j \in RunnerJobs, goal \in {"", "goal"} :
            (HandleStart(j, goal) /\ sessions[j] # None
               /\ sstatus[sessions[j]] \notin TerminalStatuses) =>
                 (resp'.code = 409 /\ sessions' = sessions)]_vars
    /\ [](\A j \in RunnerJobs : Cardinality(LiveSessions(j)) <= 1)
\* C23: POST /jobs/{id}/end for a job that has a session calls end() on that
\* session and answers {status: end_requested}; for a job without a session
\* the answer is 404.
C23_EndReachesSession ==
    [][\A j \in RunnerJobs :
         do_POST(j, "end") =>
            IF sessions[j] = None
            THEN resp'.code = 404
            ELSE /\ resp' = [code |-> 200, status |-> "end_requested"]
                 /\ send'[sessions[j]]]_vars
\* C24: the callback server answers 200 to every POST /events with a well-formed
\* JSON body, also when the event handler raises, and goes on serving later
\* events; a POST to another path is answered 404 without invoking the handler.
C24_CallbackAlways200 ==
    [][\A path \in Paths, body \in Bodies, raises \in BOOLEAN :
         CallbackPost(path, body, raises) =>
            /\ (path = "/events" /\ body \in JsonBodies) =>
                  (cb_resp' = 200 /\ Len(cb_calls') = Len(cb_calls) + 1)
            /\ path # "/events" => (cb_resp' = 404 /\ cb_calls' = cb_calls)]_vars

C24_ServedAfterRaise ==
    /\ Len(cb_calls) >= 2
    /\ cb_calls[1].raised
    /\ ~cb_calls[2].raised
    /\ cb_resp = 200
RoundTrip(x, now) == load_state(save_state(from_dict(x, now), now).disk, now)

SameExceptUpdatedAt(x, y) ==
    \A f \in DOMAIN x \ {"updated_at"} : f \in DOMAIN y /\ y[f] = x[f]

\* C25: for a job record x carrying the fields of the Job data model,
\* save_state(x) then load_state returns a record equal to x on every field
\* but updated_at, and saving the loaded record and loading again returns
\* the same record, updated_at aside.
C25_SaveLoadRoundTrip ==
    given # NoObj =>
    LET y == RoundTrip(given, clock)
    IN /\ SameExceptUpdatedAt(given, y)
       /\ SameExceptUpdatedAt(y, RoundTrip(y, clock))
       /\ (disk # NoFile /\ obj # NoObj) => SameExceptUpdatedAt(obj, load_state(disk, clock))
\* C26: set_phase accepts each of the eight phases and rejects any other value
\* with an error that leaves phase and updated_at unchanged, so the phase of a
\* job is always one of the eight.
C26_SetPhaseAcceptsEight ==
    /\ [][\A p \in PhaseArgs :
            SetPhase(p) =>
               IF p \in AllPhases
               THEN obj'["phase"] = p /\ ~raised'
               ELSE /\ raised'
                    /\ obj'["phase"] = obj["phase"]
                    /\ obj'["updated_at"] = obj["updated_at"]]_vars
    /\ [](obj # NoObj => obj["phase"] \in AllPhases)
Requests == {i \in 1..Len(emitted) : emitted[i].type = "approval_needed"}

\* the permission callback of call n has returned
Returned(n) == n # call.n \/ cpc = "idle"

\* tool_use_ids whose approval request belongs to a callback that has returned
ReturnedIds == {emitted[i].tu : i \in {k \in Requests : Returned(emitted[k].n)}}

\* C28: an approve or deny that reaches the runner after the permission
\* callback it targeted has returned returns false and has no effect: it
\* neither grants nor denies a later tool call and leaves approved_tools alone.
C28_LateDecisionIsNoOp ==
    \A tu \in ReturnedIds, auto \in BOOLEAN :
        LET a == approve(pending_approval, approved_tools, approval_granted,
                         scheduled, loop_ready, tu, auto)
            d == deny(pending_approval, approval_granted, scheduled, loop_ready, tu)
        IN /\ ~a.ret
           /\ a.approved_tools = approved_tools
           /\ a.approval_granted = approval_granted
           /\ a.scheduled = scheduled
           /\ ~d.ret
           /\ d.approval_granted = approval_granted
           /\ d.scheduled = scheduled

\* C29: within one session every approval request carries a tool_use_id
\* different from that of every earlier approval request, also for two gated
\* calls of one assistant turn and for a repeated call after a deny or timeout.
C29_RequestIdsDistinct ==
    \A i, k \in Requests : i # k => emitted[i].tu # emitted[k].tu
\* the session is inside its permission callback for tool_use_id tu
InCallbackFor(tu) ==
    cpc # "idle" /\ pending_approval # NoPending /\ pending_approval.tool_use_id = tu

\* C30: the controller holds a pending-approval entry for the job's
\* tool_use_id only while the session is parked in its permission callback
\* for that tool_use_id: once the callback has returned because of timeout,
\* cancel or end, the controller's entry for it is gone.
C30_EntryOnlyWhileParked ==
    ctl_pending # NoEntry => InCallbackFor(ctl_pending)
\* C31: handling a duplicate delivery of an approval_needed event whose
\* approval was already consumed is a no-op: the pending entry is not created
\* again, so a later handle_approve or handle_deny for that tool_use_id still
\* finds no match (returns false, sends no RPC).
C31_DuplicateRequestIsNoOp ==
    [][\A i \in Requests :
          (Redeliver(i) /\ emitted[i].tu \in consumed /\ ctl_pending = NoEntry)
             => /\ ctl_pending' = ctl_pending
                /\ ~DecisionMatches(ctl_pending', emitted[i].tu)]_vars
InTmpWrite(t) == Op(t) = "save" /\ lpc[t].m \in {"locked", "partial", "written"}

\* C33: a load_state running concurrently with save_state calls on the same
\* job reads a complete version that some save wrote, or the version before
\* them, never a partially written or mixed record, and two saves never
\* interleave their writes to the temporary file.
C33_LoadsSeeWholeVersions ==
    /\ \A c \in observed : c.whole /\ c.rec \in written \cup {InitialRec}
    /\ \A t1, t2 \in LockThreads : InTmpWrite(t1) /\ InTmpWrite(t2) => t1 = t2
    /\ state_tmp # <<>> => \E t \in LockThreads :
                              InTmpWrite(t) /\ state_tmp[1].rec = lmem[t]

\* a save is half-way through its write while the other saver waits for the
\* lock, and loads have already read a version a save wrote
C33_SaveContendedAndRead ==
    /\ At("worker", "save", "partial")
    /\ At("other", "save", "start")
    /\ \E c \in observed : c.rec # InitialRec
    /\ At("reader", "load", "start")
    /\ lpc["reader"].i = 2
IsPrefix(a, b) == Len(a) <= Len(b) /\ a = SubSeq(b, 1, Len(a))

C35_WorkerErrorPersistsFailed ==
    [][\A j \in Jobs :
          /\ (pc[j] = "except" /\ pc'[j] # "except")
                => (store'[j].phase = "FAILED" /\ store'[j].error # ErrNone)
          /\ (pc[j] = "finally" /\ pc'[j] # "finally")
                => /\ current_job_id' # j
                   /\ (current_job_id = j /\ queue # <<>>)
                         => (current_job_id' = Head(queue) /\ pc'[Head(queue)] = "start")]_vars
\* C36: if approve(tool_use_id) returned true for a parked call and neither
\* cancel nor end is requested, the call's permission callback returns Allow:
\* no accepted approve is followed by a Deny of that call because the timeout
\* fired first or because the callback's own set-up overwrote the decision.
C36_AcceptedApproveAllows ==
    (/\ cpc = "idle"
     /\ call # NoCall
     /\ result # "none"
     /\ approve_accepted
     /\ ~cancel_requested
     /\ ~end_requested) => result = Allow
\* C37: once a session's status is completed, failed or cancelled it never
\* changes again, whatever control calls arrive and whatever callback
\* wake-ups or timeouts complete afterwards.
C37_TerminalStatusIsFinal ==
    [][(status \in TerminalStatuses) => status' = status]_vars
\* C38: a session emits at most one terminal event (completed, failed or
\* session_ended) and no event after it, also when closing the LLM client
\* fails after the terminal event was posted: a terminal event is always the
\* last event emitted.
C38_TerminalEventIsLast ==
    \A i \in DOMAIN emitted :
        emitted[i].type \in TerminalEvents => i = Len(emitted)
\* C39: whenever the session's execution context has finished, also when the
\* LLM event stream ended without a result, the status is completed, failed or
\* cancelled and a terminal event has been emitted.
C39_FinishedMeansTerminal ==
    mpc = "done" =>
        /\ status \in TerminalStatuses
        /\ \E i \in DOMAIN emitted : emitted[i].type \in TerminalEvents
====
